---- MODULE Spec2Model ----
(***************************************************************************)
(* Verification model of the scope-spider emissions pipeline:              *)
(*   - the company record and the operations that rewrite it               *)
(*     (stage reset, record merge, review accept / reject / override),     *)
(*   - the fallback ladder of s5_analyse.analyse_company,                  *)
(*   - the lock-guarded load / mutate / persist cycle of CompanyRepository.*)
(*                                                                         *)
(* Optional values (Python None) are modelled as sequences of length 0 or  *)
(* 1: None == <<>>, Some(v) == <<v>>.  Confidences and thresholds are      *)
(* integers in hundredths (0.7 is 70).  Timestamps are the token "now".    *)
(***************************************************************************)
EXTENDS Integers, Sequences, FiniteSets, TLC

VARIABLES
    company,      \* the in-memory Company record an operation works on
    prev,         \* the record as it was before the last operation
    last,         \* descriptor of the last operation: name, inputs, result
    statusSetBy,  \* which operation last wrote verification.status
    phase,        \* position of the driver of the record operations
    ladder,       \* state of one analyse_company run (s5_analyse)
    repo,         \* the dataset file, the repository lock and its callers
    main          \* state of one run of a stage script's main (s5, s4)

recVars == <<company, prev, last, statusSetBy, phase>>

ladderVars == <<company, prev, last, statusSetBy, phase, ladder>>

vars == <<company, prev, last, statusSetBy, phase, ladder, repo, main>>

(***************************************************************************)
(* Optional values and Python truthiness                                   *)
(***************************************************************************)
None == <<>>

Some(v) == <<v>>

IsNone(o) == Len(o) = 0

NotNone(o) == Len(o) = 1

The(o) == o[1]

\* truthiness of an Optional[str]: None and "" are falsy
TruthyStr(o) == NotNone(o) /\ The(o) # ""

\* Python `a or b` on Optional[str]
OrStr(a, b) == IF TruthyStr(a) THEN a ELSE b

(***************************************************************************)
(* Bounds                                                                  *)
(***************************************************************************)
\* longest list of requested stage names handed to reset_company_stages
MaxStages == 2

\* largest emissions value (canonical mass units) drawn as an input
MaxValue == 2

(***************************************************************************)
(* Data model                                                              *)
(***************************************************************************)
\* VerificationRecord() as constructed by its defaults
VerificationRecord ==
    [status |-> "pending", reviewer |-> None, verified_at |-> None,
     scope_1_override |-> None, scope_2_override |-> None,
     scope_3_override |-> None, notes |-> None]

\* EmissionsData() as constructed by its defaults
EmissionsData == [scope_1 |-> None, scope_2 |-> None, scope_3 |-> None]

\* Annotations() as constructed by its defaults.  anzsic_division and
\* net_zero_claims stand for the fields written by the annotation stage,
\* profitability_ratio for the derived metrics written by a separate script.
Annotations ==
    [anzsic_division |-> None, net_zero_claims |-> None,
     profitability_ratio |-> None]

\* Company(identity=...) as constructed by its defaults
Company(identity) ==
    [identity |-> identity,
     emissions |-> EmissionsData,
     annotations |-> Annotations,
     search_record |-> None,
     download_record |-> None,
     extraction_record |-> None,
     analysis_record |-> None,
     verification |-> VerificationRecord]

ScopeValue(value, confidence, context) ==
    [value |-> value, confidence |-> confidence, context |-> context]

Scope3Emissions(value, confidence, context, qualifiers) ==
    [value |-> value, confidence |-> confidence, context |-> context,
     qualifiers |-> qualifiers]

AnalysisRecord(method, snippet_label, snippet_path, snippet_pages, confidence) ==
    [method |-> method, snippet_label |-> snippet_label,
     snippet_path |-> snippet_path, snippet_pages |-> snippet_pages,
     confidence |-> confidence]

SearchRecord(url) == [url |-> url]

DownloadRecord(pdf_path) == [pdf_path |-> pdf_path]

ExtractionRecord(text_path, table_path, table_count) ==
    [text_path |-> text_path, table_path |-> table_path,
     table_count |-> table_count]

(***************************************************************************)
(* Stage dependency graph and stage reset (s0_stats)                       *)
(***************************************************************************)
STAGE_NAMES == <<"s2", "s3", "s4", "s5", "s6">>

\* STAGE_DEPENDENCIES with the analysis stage left out of the search closure
STAGE_DEPENDENCIES_shallow ==
    [s2 |-> <<"s2", "s3", "s4">>,
     s3 |-> <<"s3", "s4", "s5">>,
     s4 |-> <<"s4", "s5">>,
     s5 |-> <<"s5">>,
     s6 |-> <<"s6">>]

STAGE_DEPENDENCIES ==
    [s2 |-> <<"s2", "s3", "s4", "s5">>,
     s3 |-> <<"s3", "s4", "s5">>,
     s4 |-> <<"s4", "s5">>,
     s5 |-> <<"s5">>,
     s6 |-> <<"s6">>]

\* the annotation fields the reset clears (the derived ratios are not listed)
ANNOTATION_RESET_FIELDS == {"anzsic_division", "net_zero_claims"}

\* every resetting helper returns the record it leaves and its `changed` flag
Result(c, changed) == [company |-> c, changed |-> changed]

_reset_annotations(c) ==
    LET annotations == c.annotations
        changed == \E f \in ANNOTATION_RESET_FIELDS : NotNone(annotations[f])
        cleared == [f \in DOMAIN annotations |->
                       IF f \in ANNOTATION_RESET_FIELDS THEN None
                       ELSE annotations[f]]
    IN  Result([c EXCEPT !.annotations = cleared], changed)

\* _reset_verification reporting a change whether or not a field was set
_reset_verification_always(c) ==
    Result([c EXCEPT !.verification =
               [status |-> "pending", reviewer |-> None, verified_at |-> None,
                scope_1_override |-> None, scope_2_override |-> None,
                scope_3_override |-> None, notes |-> None]],
           TRUE)

_reset_verification(c) ==
    LET v == c.verification
        reset_fields == {"verified_at", "reviewer", "scope_1_override",
                         "scope_2_override", "scope_3_override", "notes"}
        changedFields == \E f \in reset_fields : NotNone(v[f])
        changedStatus == v.status # "pending"
        cleared == [f \in DOMAIN v |->
                       IF f \in reset_fields THEN None
                       ELSE IF f = "status" THEN "pending"
                       ELSE v[f]]
    IN  Result([c EXCEPT !.verification = cleared],
               changedFields \/ changedStatus)

\* the analysis reset leaving the verification record alone
_reset_analysis_keepVerification(c) ==
    Result([c EXCEPT !.analysis_record = None, !.emissions = EmissionsData],
           NotNone(c.analysis_record) \/ c.emissions # EmissionsData)

_reset_analysis(c) ==
    LET changedAnalysis == NotNone(c.analysis_record)
        c1 == [c EXCEPT !.analysis_record = None]
        changedEmissions ==
            \E attr \in {"scope_1", "scope_2", "scope_3"} :
                NotNone(c1.emissions[attr])
        c2 == IF changedEmissions THEN [c1 EXCEPT !.emissions = EmissionsData]
              ELSE c1
        r == _reset_verification(c2)
    IN  Result(r.company, changedAnalysis \/ changedEmissions \/ r.changed)

_reset_extraction(c) ==
    IF NotNone(c.extraction_record)
    THEN Result([c EXCEPT !.extraction_record = None], TRUE)
    ELSE Result(c, FALSE)

_reset_download(c) ==
    IF NotNone(c.download_record)
    THEN Result([c EXCEPT !.download_record = None], TRUE)
    ELSE Result(c, FALSE)

_reset_search(c) ==
    IF NotNone(c.search_record)
    THEN Result([c EXCEPT !.search_record = None], TRUE)
    ELSE Result(c, FALSE)

_apply_stage_reset(c, stage) ==
    CASE stage = "s2" -> _reset_search(c)
      [] stage = "s3" -> _reset_download(c)
      [] stage = "s4" -> _reset_extraction(c)
      [] stage = "s5" -> _reset_analysis(c)
      [] stage = "s6" -> _reset_annotations(c)

SeqToSet(s) == {s[i] : i \in 1..Len(s)}

\* append to `ordered` the members of `deps` not seen yet, in order
RECURSIVE AppendUnseen(_, _)
AppendUnseen(ordered, deps) ==
    IF deps = <<>> THEN ordered
    ELSE IF Head(deps) \in SeqToSet(ordered)
         THEN AppendUnseen(ordered, Tail(deps))
         ELSE AppendUnseen(Append(ordered, Head(deps)), Tail(deps))

RECURSIVE ExpandFrom(_, _)
ExpandFrom(ordered, stages) ==
    IF stages = <<>> THEN ordered
    ELSE ExpandFrom(AppendUnseen(ordered, STAGE_DEPENDENCIES[Head(stages)]),
                    Tail(stages))

\* an expansion that follows only the first requested stage
_expand_stages_firstOnly(stages) ==
    IF stages = <<>> THEN <<>> ELSE ExpandFrom(<<>>, <<Head(stages)>>)

\* the ordered closure of the requested stages, computed before any clearing
_expand_stages(stages) == ExpandFrom(<<>>, stages)

RECURSIVE ResetLoop(_, _, _)
ResetLoop(c, changed, expanded) ==
    IF expanded = <<>> THEN Result(c, changed)
    ELSE LET r == _apply_stage_reset(c, Head(expanded))
         IN  ResetLoop(r.company, changed \/ r.changed, Tail(expanded))

reset_company_stages(c, stages) == ResetLoop(c, FALSE, _expand_stages(stages))

(***************************************************************************)
(* Text helpers.  The strings the model draws are listed in ContextPool;   *)
(* the tables below give what the Python code computes for each of them.   *)
(***************************************************************************)
ContextPool == {"", "  ", "12 t", " 12 t ", "n/a"}

\* str.strip()
Strip(s) ==
    CASE s = "  " -> ""
      [] s = " 12 t " -> "12 t"
      [] OTHER -> s

\* what _VALUE_RE.search(context) and _infer_unit make of a context: the
\* canonical value of its first numeric token, None without such a token
ContextExpected(s) ==
    CASE s = "12 t" -> Some(12000)
      [] s = " 12 t " -> Some(12000)
      [] OTHER -> None

\* Python `(a or b or "").strip() or None` on Optional[str]
StripOrNone(a, b) ==
    LET chosen == OrStr(a, OrStr(b, Some("")))
        stripped == Strip(The(chosen))
    IN  IF stripped = "" THEN None ELSE Some(stripped)

_adjust_value_from_context(raw_value, context) ==
    IF IsNone(raw_value) \/ The(raw_value) <= 0 \/ ~TruthyStr(context)
    THEN raw_value
    ELSE LET expectedOpt == ContextExpected(The(context))
             raw == The(raw_value)
         IN  IF IsNone(expectedOpt) THEN raw_value
             ELSE LET expected == The(expectedOpt)
                      difference == IF expected >= raw THEN expected - raw
                                    ELSE raw - expected
                      \* max(1000, expected * 0.01), compared times 100
                      tolerance100 == IF 100000 >= expected THEN 100000
                                      ELSE expected
                  IN  IF expected <= 0 THEN raw_value
                      ELSE IF raw = expected THEN raw_value
                      ELSE IF expected >= 10 * raw THEN Some(expected)
                      ELSE IF 100 * difference <= tolerance100
                           THEN Some(expected)
                      ELSE raw_value

\* Scope2Emissions._normalise_method: [ok, value]; ok = FALSE is the
\* ValueError "scope_2.method must be one of: market, location, unsure"
_normalise_method(value) ==
    IF IsNone(value) THEN [ok |-> TRUE, value |-> None]
    ELSE LET text == The(value)
         IN  CASE Strip(text) = "" -> [ok |-> TRUE, value |-> None]
               [] text = "market" -> [ok |-> TRUE, value |-> Some("market")]
               [] text = "market-based" -> [ok |-> TRUE, value |-> Some("market")]
               [] text = "location" -> [ok |-> TRUE, value |-> Some("location")]
               [] text = "unsure" -> [ok |-> TRUE, value |-> Some("unsure")]
               [] OTHER -> [ok |-> FALSE, value |-> None]

Scope2Emissions(value, method, confidence, context) ==
    [value |-> value, confidence |-> confidence, context |-> context,
     method |-> method]

(***************************************************************************)
(* Record Merge (utils/verification.update_company_emissions)              *)
(***************************************************************************)
ParsedResult(s1, c1, s2, c2, s3, c3, qualifiers, scope_2_method, confidence) ==
    [scope_1 |-> s1, scope_1_context |-> c1,
     scope_2 |-> s2, scope_2_context |-> c2,
     scope_3 |-> s3, scope_3_context |-> c3,
     qualifiers |-> qualifiers, scope_2_method |-> scope_2_method,
     confidence |-> confidence]

\* result of an operation on a record: the record it leaves, whether it
\* returned normally (ok) and its return value
OpResult(c, ok, ret) == [company |-> c, ok |-> ok, ret |-> ret]

\* the verification reset forgetting the override fields
MergeVerification_statusOnly(v) ==
    [v EXCEPT !.status = "pending", !.verified_at = None, !.notes = None]

\* the verification reset at the end of a successful merge
MergeVerification(v) ==
    [v EXCEPT !.status = "pending", !.verified_at = None,
              !.scope_1_override = None, !.scope_2_override = None,
              !.scope_3_override = None, !.notes = None]

\* the scope_3 part of the merge
MergeScope3(e, parsed, scope3_value) ==
    IF NotNone(scope3_value) /\ The(scope3_value) > 0
    THEN LET qualifiers ==
                 OrStr(parsed.qualifiers,
                       IF NotNone(e.scope_3) THEN The(e.scope_3).qualifiers
                       ELSE None)
             existing == IF NotNone(e.scope_3) THEN The(e.scope_3).context
                         ELSE None
         IN  Some(Scope3Emissions(
                      The(scope3_value), Some(parsed.confidence),
                      StripOrNone(parsed.scope_3_context, existing),
                      IF TruthyStr(qualifiers)
                      THEN Some(Strip(The(qualifiers))) ELSE None))
    ELSE IF TruthyStr(parsed.qualifiers) /\ NotNone(e.scope_3)
    THEN Some([The(e.scope_3) EXCEPT
                   !.qualifiers = Some(Strip(The(parsed.qualifiers)))])
    ELSE e.scope_3

\* the early returns testing `< 0` where the code tests `<= 0`
MergeDiscards_negative(parsedOpt) ==
    \/ IsNone(parsedOpt)
    \/ IsNone(The(parsedOpt).scope_1)
    \/ IsNone(The(parsedOpt).scope_2)
    \/ The(The(parsedOpt).scope_1) < 0
    \/ The(The(parsedOpt).scope_2) < 0

\* the two early returns of update_company_emissions: a result that is absent
\* or lacks a positive scope_1 or scope_2 is discarded
MergeDiscards(parsedOpt) ==
    \/ IsNone(parsedOpt)
    \/ IsNone(The(parsedOpt).scope_1)
    \/ IsNone(The(parsedOpt).scope_2)
    \/ The(The(parsedOpt).scope_1) <= 0
    \/ The(The(parsedOpt).scope_2) <= 0

update_company_emissions(c, parsedOpt, method, snippet_label, snippet_path, snippet_pages) ==
    IF MergeDiscards(parsedOpt) THEN OpResult(c, TRUE, FALSE)
    ELSE
    LET parsed == The(parsedOpt)
        scope1_value ==
            _adjust_value_from_context(parsed.scope_1, parsed.scope_1_context)
        scope2_value ==
            _adjust_value_from_context(parsed.scope_2, parsed.scope_2_context)
        scope3_value ==
            _adjust_value_from_context(parsed.scope_3, parsed.scope_3_context)
        e0 == c.emissions
        existing_scope1_context ==
            IF NotNone(e0.scope_1) THEN The(e0.scope_1).context ELSE None
        e1 == [e0 EXCEPT !.scope_1 =
                  Some(ScopeValue(The(scope1_value), Some(parsed.confidence),
                           StripOrNone(parsed.scope_1_context,
                                       existing_scope1_context)))]
        existing_method ==
            IF NotNone(e1.scope_2) THEN The(e1.scope_2).method ELSE None
        scope2_method == OrStr(parsed.scope_2_method, existing_method)
        validated == _normalise_method(scope2_method)
        existing_scope2_context ==
            IF NotNone(e1.scope_2) THEN The(e1.scope_2).context ELSE None
        e2 == [e1 EXCEPT !.scope_2 =
                  Some(Scope2Emissions(
                           The(scope2_value), validated.value,
                           Some(parsed.confidence),
                           StripOrNone(parsed.scope_2_context,
                                       existing_scope2_context)))]
        e3 == [e2 EXCEPT !.scope_3 = MergeScope3(e2, parsed, scope3_value)]
        merged == [c EXCEPT
                     !.emissions = e3,
                     !.analysis_record =
                         Some(AnalysisRecord(method, snippet_label, snippet_path,
                                             snippet_pages, parsed.confidence)),
                     !.verification = MergeVerification(c.verification)]
    IN  IF IsNone(scope1_value) \/ IsNone(scope2_value)
        THEN OpResult(c, TRUE, FALSE)
        ELSE IF ~validated.ok
        \* Scope2Emissions(...) raises after scope_1 has been assigned
        THEN OpResult([c EXCEPT !.emissions = e1], FALSE, FALSE)
        ELSE OpResult(merged, TRUE, TRUE)

(***************************************************************************)
(* Review workflow (app/services/verification)                             *)
(***************************************************************************)
apply_accept(c, notes, reviewer) ==
    LET v == c.verification
    IN  OpResult([c EXCEPT !.verification =
                      [v EXCEPT !.status = "accepted",
                                !.notes = OrStr(notes, None),
                                !.reviewer = OrStr(reviewer, v.reviewer),
                                !.verified_at = Some("now")]],
                 TRUE, TRUE)

\* normalise_pdf_url followed by the scheme / netloc test of apply_reject:
\* the sanitised URL when the replacement URL is acceptable, None otherwise
SanitisedPdfUrl(new_url) ==
    CASE new_url = "https://h/r.pdf?x=1" -> Some("https://h/r.pdf")
      [] new_url = "ftp://h/r.pdf" -> None
      [] new_url = "https://h/r.html" -> None
      [] OTHER -> None

\* _decode_uploaded_pdf: TRUE when the data URL decodes to a PDF
_decode_uploaded_pdf(contents) ==
    CASE contents = "data:application/pdf;base64,JVBERi0xLjQ=" -> TRUE
      [] contents = "data:text/plain;base64,aGk=" -> FALSE
      [] OTHER -> FALSE

\* a reject that resets the stages before the upload is decoded
apply_reject_resetFirst(c, new_url, upload_contents, notes, reviewer) ==
    LET urlGiven == TruthyStr(new_url)
        sanitized_url == IF urlGiven THEN SanitisedPdfUrl(The(new_url)) ELSE None
        urlBad == urlGiven /\ IsNone(sanitized_url)
        uploadGiven == TruthyStr(upload_contents)
        uploadBad == uploadGiven /\ ~_decode_uploaded_pdf(The(upload_contents))
        stages_requested ==
            IF urlGiven THEN <<"s2">>
            ELSE IF uploadGiven THEN <<"s3">> ELSE <<>>
        reset == reset_company_stages(c, stages_requested).company
        c1 == IF NotNone(sanitized_url)
              THEN [reset EXCEPT !.search_record =
                                     Some(SearchRecord(The(sanitized_url)))]
              ELSE reset
        c2 == IF uploadGiven
              THEN [c1 EXCEPT !.download_record =
                                  Some(DownloadRecord("uploaded.pdf"))]
              ELSE c1
        v == c2.verification
        c3 == [c2 EXCEPT !.verification =
                  [v EXCEPT !.status = "rejected",
                            !.verified_at = Some("now"),
                            !.notes = OrStr(notes, None),
                            !.reviewer = OrStr(reviewer, v.reviewer),
                            !.scope_1_override = None,
                            !.scope_2_override = None,
                            !.scope_3_override = None]]
    IN  IF urlBad \/ stages_requested = <<>>
        THEN OpResult(c, FALSE, FALSE)
        ELSE IF uploadBad THEN OpResult(reset, FALSE, FALSE)
        ELSE OpResult(c3, TRUE, TRUE)

apply_reject(c, new_url, upload_contents, notes, reviewer) ==
    LET urlGiven == TruthyStr(new_url)
        sanitized_url == IF urlGiven THEN SanitisedPdfUrl(The(new_url)) ELSE None
        urlBad == urlGiven /\ IsNone(sanitized_url)
        uploadGiven == TruthyStr(upload_contents)
        uploadBad == uploadGiven /\ ~_decode_uploaded_pdf(The(upload_contents))
        stages_requested ==
            IF urlGiven THEN <<"s2">>
            ELSE IF uploadGiven THEN <<"s3">> ELSE <<>>
        reset == reset_company_stages(c, stages_requested).company
        c1 == IF NotNone(sanitized_url)
              THEN [reset EXCEPT !.search_record =
                                     Some(SearchRecord(The(sanitized_url)))]
              ELSE reset
        c2 == IF uploadGiven
              THEN [c1 EXCEPT !.download_record =
                                  Some(DownloadRecord("uploaded.pdf"))]
              ELSE c1
        v == c2.verification
        c3 == [c2 EXCEPT !.verification =
                  [v EXCEPT !.status = "rejected",
                            !.verified_at = Some("now"),
                            !.notes = OrStr(notes, None),
                            !.reviewer = OrStr(reviewer, v.reviewer),
                            !.scope_1_override = None,
                            !.scope_2_override = None,
                            !.scope_3_override = None]]
    IN  IF urlBad \/ uploadBad \/ stages_requested = <<>>
        \* HTTPException(400) before anything is reset
        THEN OpResult(c, FALSE, FALSE)
        ELSE OpResult(c3, TRUE, TRUE)

\* the scope_3 part of apply_manual_override
OverrideScope3(e, scope3) ==
    IF NotNone(scope3)
    THEN IF IsNone(e.scope_3)
         THEN Some(Scope3Emissions(The(scope3), Some(100), None, None))
         ELSE Some([The(e.scope_3) EXCEPT !.value = The(scope3),
                                          !.confidence = Some(100)])
    ELSE IF NotNone(e.scope_3)
    THEN LET old == The(e.scope_3).confidence
         IN  Some([The(e.scope_3) EXCEPT !.confidence =
                       IF NotNone(old) /\ The(old) # 0 THEN old ELSE Some(100)])
    ELSE e.scope_3

apply_manual_override(c, scope1, scope2, scope3, notes, reviewer) ==
    LET v == c.verification
        e0 == c.emissions
        e1 == [e0 EXCEPT !.scope_1 =
                  IF IsNone(e0.scope_1)
                  THEN Some(ScopeValue(scope1, Some(100), None))
                  ELSE Some([The(e0.scope_1) EXCEPT !.value = scope1,
                                                    !.confidence = Some(100)])]
        \* Scope2Emissions(value=scope2, confidence=1.0, method="manual")
        constructed == _normalise_method(Some("manual"))
        e2 == [e1 EXCEPT !.scope_2 =
                  IF IsNone(e1.scope_2)
                  THEN Some(Scope2Emissions(scope2, constructed.value,
                                            Some(100), None))
                  ELSE Some([The(e1.scope_2) EXCEPT
                                !.value = scope2,
                                !.confidence = Some(100),
                                !.method = OrStr(The(e1.scope_2).method,
                                                 Some("manual"))])]
        e3 == [e2 EXCEPT !.scope_3 = OverrideScope3(e2, scope3)]
        previous_record == c.analysis_record
        analysis ==
            IF NotNone(previous_record)
            THEN AnalysisRecord("manual-override",
                                The(previous_record).snippet_label,
                                The(previous_record).snippet_path,
                                The(previous_record).snippet_pages, 100)
            ELSE AnalysisRecord("manual-override", "manual", None, <<>>, 100)
        done == [c EXCEPT
                   !.emissions = e3,
                   !.analysis_record = Some(analysis),
                   !.verification =
                       [v EXCEPT !.status = "accepted",
                                 !.verified_at = Some("now"),
                                 !.scope_1_override = Some(scope1),
                                 !.scope_2_override = Some(scope2),
                                 !.scope_3_override = scope3,
                                 !.notes = OrStr(notes, None),
                                 !.reviewer = OrStr(reviewer, v.reviewer)]]
    IN  IF IsNone(e1.scope_2) /\ ~constructed.ok
        \* the constructor raises after scope_1 has been written
        THEN OpResult([c EXCEPT !.emissions = e1], FALSE, FALSE)
        ELSE OpResult(done, TRUE, TRUE)

\* utils/status.emissions_complete
emissions_complete(emissions) ==
    LET scope1_value == IF NotNone(emissions.scope_1)
                        THEN Some(The(emissions.scope_1).value) ELSE None
        scope_2_value == IF NotNone(emissions.scope_2)
                         THEN Some(The(emissions.scope_2).value) ELSE None
    IN  /\ ~(IsNone(scope1_value) \/ The(scope1_value) <= 0)
        /\ ~(IsNone(scope_2_value) \/ The(scope_2_value) <= 0)

(***************************************************************************)
(* Input pools                                                             *)
(***************************************************************************)
STAGES == SeqToSet(STAGE_NAMES)

\* every list of at most MaxStages requested stage names
StageLists == UNION {[1..n -> STAGES] : n \in 0..MaxStages}

FullVerification(status) ==
    [status |-> status, reviewer |-> Some("rev0"), verified_at |-> Some("then"),
     scope_1_override |-> Some(1), scope_2_override |-> Some(2),
     scope_3_override |-> Some(3), notes |-> Some("old note")]

FullAnnotations ==
    [anzsic_division |-> Some("C"), net_zero_claims |-> Some(4),
     profitability_ratio |-> Some(10)]

\* records a dataset file can hold (each passes Company.model_validate)
LoadedRecords ==
    {[identity |-> "ACME",
      emissions |-> [scope_1 |-> s1, scope_2 |-> s2, scope_3 |-> s3],
      annotations |-> an,
      search_record |-> sr,
      download_record |-> dr,
      extraction_record |-> er,
      analysis_record |-> ar,
      verification |-> v] :
        s1 \in {None, Some(ScopeValue(5000, Some(80), Some("old s1")))},
        s2 \in {None,
                Some(Scope2Emissions(7000, Some("market"), Some(80),
                                     Some("old s2")))},
        s3 \in {None,
                Some(Scope3Emissions(9000, Some(80), Some("old s3"),
                                     Some("old q")))},
        an \in {Annotations, FullAnnotations},
        sr \in {None, Some(SearchRecord("https://h/old.pdf"))},
        dr \in {None, Some(DownloadRecord("old.pdf"))},
        er \in {None, Some(ExtractionRecord("old.txt", Some("old.tab"), 1))},
        ar \in {None, Some(AnalysisRecord("python", "text", Some("old.txt"),
                                          <<1>>, 80))},
        v \in {VerificationRecord} \cup
              {FullVerification(st) : st \in {"pending", "accepted", "rejected"}}}

\* values a parsing method can report for a scope
ParsedValues == {None, Some(-5), Some(0), Some(12), Some(12000)}

\* a parsed result with the given values and no provenance
BareResult(s1, s2, s3, confidence) ==
    ParsedResult(s1, None, s2, None, s3, None, None, None, confidence)

\* the results offered to the merge: every combination of scope_1 / scope_2
\* values, and valid values with every combination of provenance fields
ParsedPool ==
    {None}
    \cup {Some(BareResult(s1, s2, None, 80)) :
             s1 \in ParsedValues, s2 \in ParsedValues}
    \cup {Some(ParsedResult(Some(12), c1, Some(12000), c2, s3, None, q, m, 55)) :
             c1 \in {None, Some("  "), Some(" 12 t ")},
             c2 \in {None, Some("12 t")},
             s3 \in {None, Some(0), Some(9)},
             q \in {None, Some("new q"), Some("  ")},
             m \in {None, Some("location"), Some("hybrid"), Some("  ")}}

NotesPool == {None, Some(""), Some("note")}

ReviewerPool == {None, Some("rev1")}

UrlPool == {None, Some("https://h/r.pdf?x=1"), Some("ftp://h/r.pdf"),
            Some("https://h/r.html")}

UploadPool == {None, Some("data:application/pdf;base64,JVBERi0xLjQ="),
               Some("data:text/plain;base64,aGk=")}

\* VerificationOverride: scope_1, scope_2 >= 0, scope_3 optional and >= 0
OverrideValues == 0..MaxValue

\* the ladder state of the specifications that run no analysis
NoLadder == [pc |-> "idle"]

NoRepo == [lock |-> 0]

NoMain == [pc |-> "idle"]

(***************************************************************************)
(* Record operations as steps.  Each applies one operation to `company`    *)
(* and records the record before it and what the operation returned.       *)
(***************************************************************************)
\* Commit the outcome r of operation op.  A caller that persists only after
\* the operation returned (transactional) keeps the old record when it raised.
Commit(op, args, r, setter, transactional) ==
    /\ UNCHANGED <<ladder, repo, main>>
    /\ company' = IF transactional /\ ~r.ok THEN company ELSE r.company
    /\ prev' = company
    /\ last' = [op |-> op, args |-> args, ok |-> r.ok, ret |-> r.ret]
    /\ statusSetBy' = setter

DoReset(stages, transactional) ==
    LET r == reset_company_stages(company, stages)
    IN  Commit("reset", stages, OpResult(r.company, TRUE, r.changed),
               IF "s5" \in SeqToSet(_expand_stages(stages))
               THEN "reset" ELSE statusSetBy,
               transactional)

DoMerge(parsed, transactional) ==
    LET r == update_company_emissions(company, parsed, "python", "text", Some("new.txt"), <<2>>)
    IN  Commit("merge", parsed, r,
               IF r.ret THEN "merge" ELSE statusSetBy, transactional)

DoAccept(notes, reviewer, transactional) ==
    LET r == apply_accept(company, notes, reviewer)
    IN  Commit("accept", <<notes, reviewer>>, r, "accept", transactional)

DoReject(new_url, upload, notes, reviewer, transactional) ==
    LET r == apply_reject(company, new_url, upload, notes, reviewer)
    IN  Commit("reject", <<new_url, upload, notes, reviewer>>, r,
               IF r.ok THEN "reject" ELSE statusSetBy, transactional)

DoOverride(scope1, scope2, scope3, notes, reviewer, transactional) ==
    LET r == apply_manual_override(company, scope1, scope2, scope3, notes, reviewer)
    IN  Commit("override", <<scope1, scope2, scope3, notes, reviewer>>, r,
               IF r.ok THEN "override" ELSE statusSetBy, transactional)

(***************************************************************************)
(* Spec: one operation applied to a record loaded from the dataset         *)
(***************************************************************************)
Init ==
    /\ company \in LoadedRecords
    /\ prev = company
    /\ last = [op |-> "load", args |-> <<>>, ok |-> TRUE, ret |-> FALSE]
    /\ statusSetBy = "load"
    /\ phase = "loaded"
    /\ ladder = NoLadder
    /\ main = NoMain
    /\ repo = NoRepo

Reset ==
    /\ phase = "loaded"
    /\ \E stages \in StageLists : DoReset(stages, FALSE)
    /\ phase' = "done"

Merge ==
    /\ phase = "loaded"
    /\ \E parsed \in ParsedPool : DoMerge(parsed, FALSE)
    /\ phase' = "done"

Accept ==
    /\ phase = "loaded"
    /\ \E notes \in NotesPool, reviewer \in ReviewerPool :
          DoAccept(notes, reviewer, FALSE)
    /\ phase' = "done"

Reject ==
    /\ phase = "loaded"
    /\ \E new_url \in UrlPool, upload \in UploadPool :
          DoReject(new_url, upload, Some("note"), Some("rev1"), FALSE)
    /\ phase' = "done"

Override ==
    /\ phase = "loaded"
    /\ \E scope1 \in OverrideValues, scope2 \in OverrideValues,
          scope3 \in {None, Some(0), Some(MaxValue)} :
          DoOverride(scope1, scope2, scope3, Some("note"), Some("rev1"), FALSE)
    /\ phase' = "done"

Next == Reset \/ Merge \/ Accept \/ Reject \/ Override

Spec == Init /\ [][Next]_vars

(***************************************************************************)
(* SpecReview: the record of one company under any sequence of record     *)
(* merges, review decisions and stage resets.  An operation that raises    *)
(* is abandoned by its caller, so the record stays as it was before it.    *)
(***************************************************************************)
\* a record as the stages before the analysis leave it
FreshRecords ==
    {[Company("ACME") EXCEPT !.search_record = sr, !.download_record = dr,
                             !.extraction_record = er] :
        sr \in {None, Some(SearchRecord("https://h/old.pdf"))},
        dr \in {None, Some(DownloadRecord("old.pdf"))},
        er \in {None, Some(ExtractionRecord("old.txt", Some("old.tab"), 1))}}

ReviewParsedPool ==
    {Some(BareResult(s1, s2, None, 80)) :
        s1 \in {Some(0), Some(12000)}, s2 \in {None, Some(12000)}}
    \cup {Some(ParsedResult(Some(12), Some("12 t"), Some(12000), None,
                            Some(9), None, None, m, 80)) :
             m \in {Some("market"), Some("hybrid")}}

InitReview ==
    /\ company \in FreshRecords
    /\ prev = company
    /\ last = [op |-> "load", args |-> <<>>, ok |-> TRUE, ret |-> FALSE]
    /\ statusSetBy = "load"
    /\ phase = "review"
    /\ ladder = NoLadder
    /\ main = NoMain
    /\ repo = NoRepo

ReviewReset ==
    /\ phase = "review"
    /\ \E stage \in STAGES : DoReset(<<stage>>, TRUE)
    /\ UNCHANGED phase

ReviewMerge ==
    /\ phase = "review"
    /\ \E parsed \in ReviewParsedPool : DoMerge(parsed, TRUE)
    /\ UNCHANGED phase

ReviewAccept ==
    /\ phase = "review"
    /\ DoAccept(None, Some("rev1"), TRUE)
    /\ UNCHANGED phase

ReviewReject ==
    /\ phase = "review"
    /\ \E new_url \in {None, Some("https://h/r.pdf?x=1"), Some("ftp://h/r.pdf")},
          upload \in {None, Some("data:application/pdf;base64,JVBERi0xLjQ=")} :
          DoReject(new_url, upload, None, Some("rev1"), TRUE)
    /\ UNCHANGED phase

ReviewOverride ==
    /\ phase = "review"
    /\ \E scope1 \in OverrideValues, scope2 \in OverrideValues :
          DoOverride(scope1, scope2, None, None, Some("rev1"), TRUE)
    /\ UNCHANGED phase

NextReview ==
    ReviewReset \/ ReviewMerge \/ ReviewAccept \/ ReviewReject \/ ReviewOverride

SpecReview == InitReview /\ [][NextReview]_vars

(***************************************************************************)
(* Fallback ladder (s5_analyse.analyse_company)                            *)
(***************************************************************************)
\* main: threshold = max(0.0, min(1.0, args.threshold))
ClampThreshold(raw) ==
    LET capped == IF raw > 100 THEN 100 ELSE raw
    IN  IF capped < 0 THEN 0 ELSE capped

\* _excerpt_from_snippet: `located` is what the search of the snippet for the
\* hint or the value yields (None when no line cites it)
_excerpt_from_snippet(located, value, hint) ==
    LET fallback == IF TruthyStr(hint) /\ Strip(The(hint)) # ""
                    THEN Some(Strip(The(hint))) ELSE None
    IN  IF IsNone(value) \/ The(value) <= 0 THEN fallback
        ELSE IF NotNone(located) THEN located
        ELSE fallback

_normalise_parsed_result_contexts(parsed, located) ==
    [parsed EXCEPT
        !.scope_1_context =
            _excerpt_from_snippet(located, parsed.scope_1, parsed.scope_1_context),
        !.scope_2_context =
            _excerpt_from_snippet(located, parsed.scope_2, parsed.scope_2_context),
        !.scope_3_context =
            _excerpt_from_snippet(None, parsed.scope_3, parsed.scope_3_context)]

\* the first test of attempt_method: the result is absent or lacks a
\* positive scope_1 or scope_2
Unusable(parsedOpt) ==
    \/ IsNone(parsedOpt)
    \/ IsNone(The(parsedOpt).scope_1)
    \/ The(The(parsedOpt).scope_1) = 0
    \/ IsNone(The(parsedOpt).scope_2)
    \/ The(The(parsedOpt).scope_2) = 0
    \/ The(The(parsedOpt).scope_1) <= 0
    \/ The(The(parsedOpt).scope_2) <= 0

\* interactive = test_mode or mode == "review"
\*               or (mode == "threshold" and confidence < threshold)
Interactive(cfg, confidence) ==
    \/ cfg.test_mode
    \/ cfg.mode = "review"
    \/ (cfg.mode = "threshold" /\ confidence < cfg.threshold)

\* attempt_method: the record it leaves and what happened.  outcome is
\*   "miss"      no usable values
\*   "lowconf"   not interactive and confidence below the threshold
\*   "rejected"  the reviewer declined
\*   "merged"    update_company_emissions returned true
\*   "unchanged" update_company_emissions returned false
\*   "raised"    update_company_emissions raised
GateAndMerge(c, cfg, parsed_result, answer, r) ==
    IF ~Interactive(cfg, parsed_result.confidence)
       /\ parsed_result.confidence < cfg.threshold
    THEN [company |-> c, outcome |-> "lowconf", prompted |-> FALSE,
          merge_called |-> FALSE]
    ELSE IF Interactive(cfg, parsed_result.confidence) /\ ~answer
    THEN [company |-> c, outcome |-> "rejected", prompted |-> TRUE,
          merge_called |-> FALSE]
    ELSE [company |-> r.company,
          outcome |-> IF ~r.ok THEN "raised"
                      ELSE IF r.ret THEN "merged" ELSE "unchanged",
          prompted |-> Interactive(cfg, parsed_result.confidence),
          merge_called |-> TRUE]

MergeNormalised(c, cfg, method_label, parsed_result, answer, snippet) ==
    GateAndMerge(c, cfg, parsed_result, answer, update_company_emissions(c, Some(parsed_result), method_label, snippet.label, Some(snippet.path), snippet.pages))

attempt_method(c, cfg, method_label, parsedOpt, located, answer, snippet) ==
    IF Unusable(parsedOpt)
    THEN [company |-> c, outcome |-> "miss", prompted |-> FALSE,
          merge_called |-> FALSE]
    ELSE MergeNormalised(c, cfg, method_label, _normalise_parsed_result_contexts(The(parsedOpt), located), answer, snippet)

\* snippet_candidates with the text snippet ahead of the tables snippet
snippet_candidates_textFirst(c, existing) ==
    LET extraction == The(c.extraction_record)
        tables ==
            IF TruthyStr(extraction.table_path) /\ extraction.table_count > 0
               /\ The(extraction.table_path) \in existing
            THEN <<[label |-> "tables", path |-> The(extraction.table_path),
                    pages |-> <<1>>]>>
            ELSE <<>>
        text ==
            IF extraction.text_path # "" /\ extraction.text_path \in existing
            THEN <<[label |-> "text", path |-> extraction.text_path,
                    pages |-> <<2>>]>>
            ELSE <<>>
    IN  text \o tables

\* snippet_candidates: the tables snippet before the text snippet, each only
\* when recorded and present on disk
snippet_candidates(c, existing) ==
    LET extraction == The(c.extraction_record)
        tables ==
            IF TruthyStr(extraction.table_path) /\ extraction.table_count > 0
               /\ The(extraction.table_path) \in existing
            THEN <<[label |-> "tables", path |-> The(extraction.table_path),
                    pages |-> <<1>>]>>
            ELSE <<>>
        text ==
            IF extraction.text_path # "" /\ extraction.text_path \in existing
            THEN <<[label |-> "text", path |-> extraction.text_path,
                    pages |-> <<2>>]>>
            ELSE <<>>
    IN  tables \o text

\* where the loop over the snippets goes when the current snippet is done
NextSnippet(l) ==
    IF l.si < Len(l.snippets)
    THEN [l EXCEPT !.si = l.si + 1, !.pc = "read"]
    ELSE [l EXCEPT !.pc = "done"]

\* AfterAttempt without the break on acceptance
AfterAttempt_noBreak(l, method, accepted) ==
    CASE method = "python" ->
            IF l.cfg.local_only THEN NextSnippet(l)
            ELSE IF l.cfg.local_llm THEN [l EXCEPT !.pc = "local-llm"]
            ELSE [l EXCEPT !.pc = "ai-snippet"]
      [] method = "local-llm" -> [l EXCEPT !.pc = "ai-snippet"]
      [] method = "ai-snippet" ->
            IF l.cfg.no_upload THEN NextSnippet(l)
            ELSE [l EXCEPT !.pc = "ai-upload"]
      [] method = "ai-upload" -> NextSnippet(l)

\* where analyse_company goes after the attempt of `method` returned
\* `accepted`: it breaks out of the loop on acceptance, skips the remote
\* methods under --local and the upload under --no-upload
AfterAttempt(l, method, accepted) ==
    IF accepted THEN [l EXCEPT !.pc = "done"]
    ELSE CASE method = "python" ->
                IF l.cfg.local_only THEN NextSnippet(l)
                ELSE IF l.cfg.local_llm THEN [l EXCEPT !.pc = "local-llm"]
                ELSE [l EXCEPT !.pc = "ai-snippet"]
           [] method = "local-llm" -> [l EXCEPT !.pc = "ai-snippet"]
           [] method = "ai-snippet" ->
                IF l.cfg.no_upload THEN NextSnippet(l)
                ELSE [l EXCEPT !.pc = "ai-upload"]
           [] method = "ai-upload" -> NextSnippet(l)

(***************************************************************************)
(* SpecLadder: one run of analyse_company on one company                   *)
(***************************************************************************)
\* results the deterministic parser can return (its scope_2 method is
\* market, location or absent)
PythonPool ==
    {None,
     Some(BareResult(Some(12000), Some(0), None, 95)),
     Some(BareResult(Some(12000), Some(7000), None, 55)),
     Some(ParsedResult(Some(12000), None, Some(7000), None, None, None,
                       None, Some("market"), 70))}

\* results a language-model method can return: any schema-valid payload, or
\* None when the call failed
LlmPool ==
    {None,
     Some(BareResult(None, Some(7000), None, 95)),
     Some(BareResult(Some(12000), Some(7000), Some(9), 55)),
     Some(BareResult(Some(12), Some(7000), None, 70)),
     Some(ParsedResult(Some(12000), None, Some(7000), None, None, None,
                       None, Some("hybrid"), 95))}

\* what the search of the snippet for a value can yield
LocatedPool == {None, Some("12 t")}

LadderConfigs ==
    [mode : {"auto", "review", "threshold"},
     threshold : {ClampThreshold(70), ClampThreshold(150)},
     test_mode : BOOLEAN,
     local_only : BOOLEAN,
     local_llm : BOOLEAN,
     no_upload : BOOLEAN]

AnalysedRecord ==
    [Company("ACME") EXCEPT
        !.search_record = Some(SearchRecord("https://h/old.pdf")),
        !.download_record = Some(DownloadRecord("old.pdf")),
        !.extraction_record =
            Some(ExtractionRecord("old.txt", Some("old.tab"), 1)),
        !.emissions =
            [scope_1 |-> Some(ScopeValue(5000, Some(80), Some("old s1"))),
             scope_2 |-> None, scope_3 |-> None],
        !.analysis_record =
            Some(AnalysisRecord("python", "text", Some("old.txt"), <<1>>, 80)),
        !.verification = FullVerification("accepted")]

\* companies handed to analyse_company
LadderRecords ==
    {AnalysedRecord,
     [AnalysedRecord EXCEPT
         !.extraction_record = Some(ExtractionRecord("old.txt", None, 0))],
     [AnalysedRecord EXCEPT !.extraction_record = None],
     [AnalysedRecord EXCEPT !.download_record = None]}

NoAttempt ==
    [method |-> "none", si |-> 0, input |-> None, outcome |-> "none",
     prompted |-> FALSE, answer |-> FALSE, merge_called |-> FALSE]

\* the state in which main calls analyse_company on a company
LadderInit ==
    /\ company \in LadderRecords
    /\ prev = company
    /\ last = [op |-> "load", args |-> <<>>, ok |-> TRUE, ret |-> FALSE]
    /\ statusSetBy = "load"
    /\ phase = "ladder"
    /\ repo = NoRepo
    /\ \E cfg \in LadderConfigs,
          existing \in {{"old.tab", "old.txt"}, {"old.txt"}, {}} :
          ladder = [pc |-> "start", cfg |-> cfg, existing |-> existing,
                    snippets |-> <<>>, si |-> 0, attempt |-> NoAttempt,
                    tried |-> {}, unreadable |-> {}, llm |-> "unloaded",
                    nAttempts |-> 0, nPrompts |-> 0, nAccepted |-> 0,
                    nMerges |-> 0, changed |-> FALSE,
                    attempted_any |-> FALSE, vector_store_id |-> None]

InitLadder == LadderInit /\ main = NoMain

\* the early returns of analyse_company and the choice of the snippets
LadderStart ==
    /\ ladder.pc = "start"
    /\ LET download == company.download_record
           skip == \/ IsNone(download)
                   \/ The(download).pdf_path = ""
                   \/ IsNone(company.extraction_record)
           candidates == IF skip THEN <<>>
                         ELSE snippet_candidates(company, ladder.existing)
       IN  ladder' = IF candidates = <<>>
                     THEN [ladder EXCEPT !.pc = "done"]
                     ELSE [ladder EXCEPT !.pc = "read", !.si = 1,
                                         !.snippets = candidates]
    /\ UNCHANGED <<recVars, repo, main>>

\* snippet_path.read_text: an OSError skips the snippet
ReadSnippet ==
    /\ ladder.pc = "read"
    /\ \E readable \in BOOLEAN :
          ladder' = IF readable THEN [ladder EXCEPT !.pc = "python"]
                    ELSE NextSnippet([ladder EXCEPT
                             !.unreadable = @ \cup {ladder.si}])
    /\ UNCHANGED <<recVars, repo, main>>

\* one call of attempt_method and the control flow that follows it
Advance(recorded, method, r) ==
    IF r.outcome = "raised" THEN [recorded EXCEPT !.pc = "raised"]
    ELSE AfterAttempt(recorded, method, r.outcome = "merged")

Recorded(method, parsed, answer, l, r) ==
    [l EXCEPT
        !.attempt = [method |-> method, si |-> l.si, input |-> parsed,
                     outcome |-> r.outcome, prompted |-> r.prompted,
                     answer |-> answer, merge_called |-> r.merge_called],
        !.tried = @ \cup {<<l.si, method>>},
        !.nAttempts = @ + 1,
        !.nPrompts = IF r.prompted THEN @ + 1 ELSE @,
        !.nAccepted = IF r.merge_called THEN @ + 1 ELSE @,
        !.nMerges = IF r.outcome = "merged" THEN @ + 1 ELSE @,
        !.changed = @ \/ r.outcome = "merged",
        !.attempted_any = TRUE]

AttemptResult(method, parsed, answer, l, r) ==
    /\ company' = r.company
    /\ prev' = company
    /\ ladder' = Advance(Recorded(method, parsed, answer, l, r), method, r)
    /\ UNCHANGED <<last, statusSetBy, phase, repo, main>>

Attempt(method, parsed, located, answer, l) ==
    AttemptResult(method, parsed, answer, l, attempt_method(company, l.cfg, method, parsed, located, answer, l.snippets[l.si]))

AttemptPython ==
    /\ ladder.pc = "python"
    /\ \E parsed \in PythonPool, located \in LocatedPool, answer \in BOOLEAN :
          Attempt("python", parsed, located, answer, ladder)

\* ensure_local_llm loads the model once and remembers a failed load; without
\* an instance the method is skipped
AttemptLocalLlm ==
    /\ ladder.pc = "local-llm"
    /\ \E loads \in BOOLEAN :
          LET state == IF ladder.llm = "unloaded"
                       THEN (IF loads THEN "loaded" ELSE "failed")
                       ELSE ladder.llm
              l == [ladder EXCEPT !.llm = state]
          IN  IF state = "loaded"
              THEN \E parsed \in LlmPool, located \in LocatedPool,
                      answer \in BOOLEAN :
                      Attempt("local-llm", parsed, located, answer, l)
              ELSE /\ ladder' = [l EXCEPT !.pc = "ai-snippet"]
                   /\ UNCHANGED <<recVars, repo, main>>

AttemptAiSnippet ==
    /\ ladder.pc = "ai-snippet"
    /\ \E parsed \in LlmPool, located \in LocatedPool, answer \in BOOLEAN :
          Attempt("ai-snippet", parsed, located, answer, ladder)

\* get_or_create_vector_store and attach_file_to_vector_store call the remote
\* service outside any handler: their failure leaves analyse_company
AttemptAiUpload ==
    /\ ladder.pc = "ai-upload"
    /\ \E uploaded \in BOOLEAN :
          IF uploaded
          THEN \E parsed \in LlmPool, located \in LocatedPool,
                  answer \in BOOLEAN :
                  Attempt("ai-upload", parsed, located, answer,
                          [ladder EXCEPT !.vector_store_id = Some("vs_1")])
          ELSE /\ ladder' = [ladder EXCEPT !.pc = "raised"]
               /\ UNCHANGED <<recVars, repo, main>>

NextLadder ==
    \/ LadderStart
    \/ ReadSnippet
    \/ AttemptPython
    \/ AttemptLocalLlm
    \/ AttemptAiSnippet
    \/ AttemptAiUpload

SpecLadder == InitLadder /\ [][NextLadder]_vars

(***************************************************************************)
(* SpecRepo: threads of one process calling CompanyRepository.mutate       *)
(***************************************************************************)
MaxThreads == 2

Threads == 1..MaxThreads

\* company_key: the ticker (or name) of the identity
company_key(c) == c.identity

\* load_companies: every stored item goes through Company.model_validate, so
\* a stored scope_2 method is normalised again and an unknown one raises
load_companies(file) ==
    LET checked(c) ==
            IF IsNone(c.emissions.scope_2) THEN [ok |-> TRUE, value |-> None]
            ELSE _normalise_method(The(c.emissions.scope_2).method)
        validated(c) ==
            IF IsNone(c.emissions.scope_2) THEN c
            ELSE [c EXCEPT !.emissions.scope_2 =
                     Some([The(c.emissions.scope_2) EXCEPT
                              !.method = checked(c).value])]
    IN  [ok |-> \A i \in 1..Len(file) : checked(file[i]).ok,
         companies |-> [i \in 1..Len(file) |-> validated(file[i])]]

\* dump_companies: model_dump keeps verified_at as a datetime, which
\* json.dumps cannot serialise; it raises before the file is opened
dump_companies(companies) ==
    [ok |-> \A i \in 1..Len(companies) :
                IsNone(companies[i].verification.verified_at),
     file |-> companies]

\* the target lookup of the mutators: the first company with the key
FindTarget(companies, key) ==
    LET hits == {i \in 1..Len(companies) : company_key(companies[i]) = key}
    IN  IF hits = {} THEN 0
        ELSE CHOOSE i \in hits : \A j \in hits : i <= j

\* the callables handed to mutate: the mutators of accept_company,
\* reject_company and override_company, and a callable that merges a parsed
\* result into the target
RequestPool ==
    {[kind |-> "accept", key |-> k] : k \in {"AAA", "BBB", "ZZZ"}}
    \cup {[kind |-> "reject", key |-> "AAA"]}
    \cup {[kind |-> "reject-invalid", key |-> "AAA"]}
    \cup {[kind |-> "override", key |-> k] : k \in {"AAA", "BBB"}}
    \cup {[kind |-> "merge", key |-> k] : k \in {"AAA", "BBB"}}

\* the operation a request applies to its target
ApplyRequest(target, req) ==
    CASE req.kind = "accept" ->
            apply_accept(target, Some("note"), Some("rev1"))
      [] req.kind = "reject" ->
            apply_reject(target, Some("https://h/r.pdf?x=1"), None, None, Some("rev1"))
      [] req.kind = "reject-invalid" ->
            apply_reject(target, Some("ftp://h/r.pdf"), None, None, Some("rev1"))
      [] req.kind = "override" ->
            apply_manual_override(target, 1, 2, None, None, Some("rev1"))
      [] req.kind = "merge" ->
            update_company_emissions(target, Some(BareResult(Some(12000), Some(7000), None, 95)), "python", "text", Some("new.txt"), <<2>>)

\* the list after the operation returned r for the company at index i
MutatorOutcome(companies, i, r) ==
    [ok |-> r.ok, companies |-> [companies EXCEPT ![i] = r.company]]

RunMutatorAt(companies, i, req) ==
    IF i = 0 THEN [ok |-> FALSE, companies |-> companies]
    ELSE MutatorOutcome(companies, i, ApplyRequest(companies[i], req))

RunMutator(companies, req) ==
    RunMutatorAt(companies, FindTarget(companies, req.key), req)

InitialFile ==
    <<[Company("AAA") EXCEPT
          !.search_record = Some(SearchRecord("https://h/old.pdf")),
          !.download_record = Some(DownloadRecord("old.pdf"))],
      [Company("BBB") EXCEPT
          !.emissions.scope_2 =
              Some(Scope2Emissions(3000, Some("location"), Some(80), None))]>>

IdleThread == [pc |-> "idle", req |-> [kind |-> "none", key |-> ""],
               local |-> <<>>]

InitRepo ==
    /\ company = Company("AAA")
    /\ prev = company
    /\ last = [op |-> "load", args |-> <<>>, ok |-> TRUE, ret |-> FALSE]
    /\ statusSetBy = "load"
    /\ phase = "repo"
    /\ ladder = NoLadder
    /\ main = NoMain
    /\ repo = [lock |-> 0, file |-> InitialFile, expected |-> InitialFile,
               commits |-> 0, threads |-> [t \in Threads |-> IdleThread]]

\* a lock that never blocks
LockFree_never(lock) == TRUE

\* with self._lock: a caller enters only while no thread holds the lock
LockFree(lock) == lock = 0

\* a request thread enters mutate with its mutator
Call(t) ==
    /\ repo.threads[t].pc = "idle"
    /\ \E req \in RequestPool :
          repo' = [repo EXCEPT !.threads[t].pc = "acquire",
                               !.threads[t].req = req]
    /\ UNCHANGED <<ladderVars, main>>

Acquire(t) ==
    /\ repo.threads[t].pc = "acquire"
    /\ LockFree(repo.lock)
    /\ repo' = [repo EXCEPT !.lock = t, !.threads[t].pc = "load"]
    /\ UNCHANGED <<ladderVars, main>>

\* self._load(): a failure leaves the with block, which frees the lock
Load(t) ==
    /\ repo.threads[t].pc = "load"
    /\ LET r == load_companies(repo.file)
       IN  repo' = IF r.ok
                   THEN [repo EXCEPT !.threads[t].pc = "mutator",
                                     !.threads[t].local = r.companies]
                   ELSE [repo EXCEPT !.threads[t].pc = "failed", !.lock = 0]
    /\ UNCHANGED <<ladderVars, main>>

\* a mutator whose exception leaves the lock held
Mutator_keepLock(t) ==
    /\ repo.threads[t].pc = "mutator"
    /\ LET r == RunMutator(repo.threads[t].local, repo.threads[t].req)
       IN  repo' = IF r.ok
                   THEN [repo EXCEPT !.threads[t].pc = "dump",
                                     !.threads[t].local = r.companies]
                   ELSE [repo EXCEPT !.threads[t].pc = "failed"]
    /\ UNCHANGED <<ladderVars, main>>

\* mutator(companies, payload): an exception leaves the with block
Mutator(t) ==
    /\ repo.threads[t].pc = "mutator"
    /\ LET r == RunMutator(repo.threads[t].local, repo.threads[t].req)
       IN  repo' = IF r.ok
                   THEN [repo EXCEPT !.threads[t].pc = "dump",
                                     !.threads[t].local = r.companies]
                   ELSE [repo EXCEPT !.threads[t].pc = "failed", !.lock = 0]
    /\ UNCHANGED <<ladderVars, main>>

\* dump_companies overwrites the whole file; `expected` is the dataset the
\* committed mutators yield when applied one after the other
Dump(t) ==
    /\ repo.threads[t].pc = "dump"
    /\ LET r == dump_companies(repo.threads[t].local)
       IN  repo' = IF r.ok
                   THEN [repo EXCEPT
                            !.threads[t].pc = "release",
                            !.file = r.file,
                            !.expected =
                                RunMutator(@, repo.threads[t].req).companies,
                            !.commits = @ + 1]
                   ELSE [repo EXCEPT !.threads[t].pc = "failed", !.lock = 0]
    /\ UNCHANGED <<ladderVars, main>>

\* return result: leaving the with block frees the lock
Release(t) ==
    /\ repo.threads[t].pc = "release"
    /\ repo' = [repo EXCEPT !.threads[t].pc = "done", !.lock = 0]
    /\ UNCHANGED <<ladderVars, main>>

NextRepo ==
    \E t \in Threads :
        \/ Call(t)
        \/ Acquire(t)
        \/ Load(t)
        \/ Mutator(t)
        \/ Dump(t)
        \/ Release(t)

SpecRepo == InitRepo /\ [][NextRepo]_vars

(***************************************************************************)
(* SpecProcs: independent processes, each with its own CompanyRepository   *)
(* (and so its own lock), running mutate on the same dataset file          *)
(***************************************************************************)
MaxProcs == 2

Procs == 1..MaxProcs

\* the callables the processes hand to mutate
ProcRequestPool ==
    {[kind |-> "merge", key |-> k] : k \in {"AAA", "BBB"}}
    \cup {[kind |-> "accept", key |-> "ZZZ"],
          [kind |-> "override", key |-> "AAA"]}

IdleProc == [pc |-> "idle", req |-> [kind |-> "none", key |-> ""],
             local |-> <<>>, base |-> <<>>, commitNo |-> 0, readAt |-> 0]

InitProcs ==
    /\ company = Company("AAA")
    /\ prev = company
    /\ last = [op |-> "load", args |-> <<>>, ok |-> TRUE, ret |-> FALSE]
    /\ statusSetBy = "load"
    /\ phase = "procs"
    /\ ladder = NoLadder
    /\ main = NoMain
    /\ repo = [locks |-> [p \in Procs |-> 0], file |-> InitialFile,
               expected |-> InitialFile, commits |-> 0, lastWriter |-> 0,
               procs |-> [p \in Procs |-> IdleProc]]

ProcCall(p) ==
    /\ repo.procs[p].pc = "idle"
    /\ \E req \in ProcRequestPool :
          repo' = [repo EXCEPT !.procs[p].pc = "acquire",
                               !.procs[p].req = req]
    /\ UNCHANGED <<ladderVars, main>>

\* with self._lock: the lock is an object of the calling process
ProcAcquire(p) ==
    /\ repo.procs[p].pc = "acquire"
    /\ LockFree(repo.locks[p])
    /\ repo' = [repo EXCEPT !.locks[p] = p, !.procs[p].pc = "load"]
    /\ UNCHANGED <<ladderVars, main>>

\* `base` is the dataset read, `readAt` the number of commits it holds
ProcLoad(p) ==
    /\ repo.procs[p].pc = "load"
    /\ LET r == load_companies(repo.file)
       IN  repo' = IF r.ok
                   THEN [repo EXCEPT !.procs[p].pc = "mutator",
                                     !.procs[p].local = r.companies,
                                     !.procs[p].base = r.companies,
                                     !.procs[p].readAt = repo.commits]
                   ELSE [repo EXCEPT !.procs[p].pc = "failed",
                                     !.locks[p] = 0]
    /\ UNCHANGED <<ladderVars, main>>

ProcMutator(p) ==
    /\ repo.procs[p].pc = "mutator"
    /\ LET r == RunMutator(repo.procs[p].local, repo.procs[p].req)
       IN  repo' = IF r.ok
                   THEN [repo EXCEPT !.procs[p].pc = "dump",
                                     !.procs[p].local = r.companies]
                   ELSE [repo EXCEPT !.procs[p].pc = "failed",
                                     !.locks[p] = 0]
    /\ UNCHANGED <<ladderVars, main>>

\* a writer that replaces only the record of its target
Written_targetOnly(file, local, req) ==
    [file EXCEPT ![FindTarget(local, req.key)] =
                     local[FindTarget(local, req.key)]]

\* what the file holds after process p has written: dump_companies puts the
\* whole list of the process in place of the file
Written(file, local, req) == local

ProcDump(p) ==
    /\ repo.procs[p].pc = "dump"
    /\ LET r == dump_companies(repo.procs[p].local)
       IN  repo' = IF r.ok
                   THEN [repo EXCEPT
                            !.procs[p].pc = "release",
                            !.procs[p].commitNo = repo.commits + 1,
                            !.file = Written(@, r.file, repo.procs[p].req),
                            !.expected =
                                RunMutator(@, repo.procs[p].req).companies,
                            !.commits = @ + 1,
                            !.lastWriter = p]
                   ELSE [repo EXCEPT !.procs[p].pc = "failed",
                                     !.locks[p] = 0]
    /\ UNCHANGED <<ladderVars, main>>

ProcRelease(p) ==
    /\ repo.procs[p].pc = "release"
    /\ repo' = [repo EXCEPT !.procs[p].pc = "done", !.locks[p] = 0]
    /\ UNCHANGED <<ladderVars, main>>

NextProcs ==
    \E p \in Procs :
        \/ ProcCall(p)
        \/ ProcAcquire(p)
        \/ ProcLoad(p)
        \/ ProcMutator(p)
        \/ ProcDump(p)
        \/ ProcRelease(p)

SpecProcs == InitProcs /\ [][NextProcs]_vars

(***************************************************************************)
(* SpecFile: the dataset file as the load / dump pair reads and writes it. *)
(* The top-level object is split into its "companies" entry and the dict   *)
(* of its other keys (`siblings`).  One caller at a time runs either a     *)
(* stage script (load_companies, edit, dump_companies) or                  *)
(* CompanyRepository.mutate.                                               *)
(***************************************************************************)
MaxRounds == 2

SiblingPool ==
    {[k \in S |-> IF k = "generated_at" THEN "2024-05-01" ELSE "asx-list"] :
        S \in SUBSET {"generated_at", "source"}}

\* what the file holds under "companies": nothing, null, a string, a list
CompaniesEntry(t, items) == [t |-> t, items |-> items]

DatasetFile(kind, entry, siblings) ==
    [kind |-> kind, companies |-> entry, siblings |-> siblings]

NoEntry == CompaniesEntry("absent", <<>>)

EntryPool ==
    {NoEntry, CompaniesEntry("null", <<>>), CompaniesEntry("empty-str", <<>>),
     CompaniesEntry("str", <<>>), CompaniesEntry("list", <<>>),
     CompaniesEntry("list", InitialFile),
     CompaniesEntry("list",
         [InitialFile EXCEPT ![2].emissions.scope_2 =
             Some(Scope2Emissions(3000, Some("hybrid"), Some(80), None))])}

FilePool ==
    {DatasetFile(k, NoEntry, <<>>) :
        k \in {"missing", "empty", "invalid-json", "not-object"}}
    \cup {DatasetFile("object", e, s) : e \in EntryPool, s \in SiblingPool}

\* load_companies on the file: a missing or empty file reads as "{}", a
\* falsy "companies" entry reads as [], a non-list raises ValueError, every
\* item goes through Company.model_validate
PayloadOf(f) ==
    IF f.kind \in {"missing", "empty"}
    THEN [companies |-> NoEntry, siblings |-> <<>>]
    ELSE [companies |-> f.companies, siblings |-> f.siblings]

\* payload.get("companies") or []
CompaniesData(payload) ==
    IF payload.companies.t \in {"absent", "null", "empty-str"}
    THEN CompaniesEntry("list", <<>>)
    ELSE payload.companies

LoadFailure(error, payload) ==
    [ok |-> FALSE, error |-> error, companies |-> <<>>, payload |-> payload]

Validated(payload, r) ==
    IF ~r.ok THEN LoadFailure("ValueError", payload)
    ELSE [ok |-> TRUE, error |-> "none", companies |-> r.companies,
          payload |-> payload]

LoadPayload(kind, payload, data) ==
    CASE kind = "invalid-json" -> LoadFailure("ValueError", payload)
      [] kind = "not-object" -> LoadFailure("AttributeError", payload)
      [] data.t # "list" -> LoadFailure("ValueError", payload)
      [] OTHER -> Validated(payload, load_companies(data.items))

load_dataset(f) == LoadPayload(f.kind, PayloadOf(f), CompaniesData(PayloadOf(f)))

\* a dump that writes a fresh object holding the companies only
dump_dataset_companiesOnly(payload, companies) ==
    LET r == dump_companies(companies)
    IN  [ok |-> r.ok,
         file |-> DatasetFile("object", CompaniesEntry("list", r.file), <<>>)]

\* dump_companies on the file: payload["companies"] is replaced and the
\* whole payload is written
dump_dataset(payload, companies) ==
    LET r == dump_companies(companies)
    IN  [ok |-> r.ok,
         file |-> DatasetFile("object", CompaniesEntry("list", r.file),
                              payload.siblings)]

\* the edit of a stage script between its load and its dump: a merge into
\* the company it works on, nothing when the company is not in the list
RunScript(companies, req) ==
    IF FindTarget(companies, req.key) = 0
    THEN [ok |-> TRUE, companies |-> companies]
    ELSE RunMutator(companies, req)

IdleCaller == [pc |-> "idle", via |-> "none",
               req |-> [kind |-> "none", key |-> ""],
               local |-> <<>>, payload |-> [companies |-> NoEntry,
                                            siblings |-> <<>>],
               loadedFrom |-> DatasetFile("missing", NoEntry, <<>>),
               error |-> "none", mutatorRan |-> FALSE, wrote |-> FALSE]

InitFile ==
    /\ company = Company("AAA")
    /\ prev = company
    /\ last = [op |-> "load", args |-> <<>>, ok |-> TRUE, ret |-> FALSE]
    /\ statusSetBy = "load"
    /\ phase = "file"
    /\ ladder = NoLadder
    /\ main = NoMain
    /\ \E f \in FilePool :
          repo = [lock |-> 0, file |-> f, initial |-> f, rounds |-> 0,
                  writes |-> 0, caller |-> IdleCaller]

\* a caller starts: a stage script or a request handler calling mutate
FileCall ==
    /\ repo.caller.pc \in {"idle", "done", "failed"}
    /\ repo.rounds < MaxRounds
    /\ \E via \in {"script", "repository"} :
       \E req \in IF via = "script"
                  THEN {[kind |-> "merge", key |-> "AAA"]}
                  ELSE RequestPool :
          repo' = [repo EXCEPT
                      !.rounds = @ + 1,
                      !.lock = IF via = "repository" THEN 1 ELSE 0,
                      !.caller = [IdleCaller EXCEPT !.pc = "load",
                                                    !.via = via,
                                                    !.req = req]]
    /\ UNCHANGED <<ladderVars, main>>

FileLoaded(r) ==
    IF r.ok
    THEN [repo EXCEPT !.caller.pc = "mutator",
                      !.caller.local = r.companies,
                      !.caller.payload = r.payload,
                      !.caller.loadedFrom = repo.file]
    ELSE [repo EXCEPT !.caller.pc = "failed",
                      !.caller.error = r.error,
                      !.caller.loadedFrom = repo.file,
                      !.lock = 0]

\* load_companies / CompanyRepository._load
FileLoad ==
    /\ repo.caller.pc = "load"
    /\ repo' = FileLoaded(load_dataset(repo.file))
    /\ UNCHANGED <<ladderVars, main>>

FileMutated(r) ==
    IF r.ok
    THEN [repo EXCEPT !.caller.pc = "dump",
                      !.caller.local = r.companies,
                      !.caller.mutatorRan = TRUE]
    ELSE [repo EXCEPT !.caller.pc = "failed",
                      !.caller.error = "mutator",
                      !.caller.mutatorRan = TRUE,
                      !.lock = 0]

\* the edit of the script, or mutator(companies, payload); the mutators of
\* the request handlers leave the payload alone
FileMutator ==
    /\ repo.caller.pc = "mutator"
    /\ repo' = FileMutated(IF repo.caller.via = "script"
                           THEN RunScript(repo.caller.local, repo.caller.req)
                           ELSE RunMutator(repo.caller.local,
                                           repo.caller.req))
    /\ UNCHANGED <<ladderVars, main>>

FileDumped(r) ==
    IF r.ok
    THEN [repo EXCEPT !.caller.pc = "done",
                      !.caller.wrote = TRUE,
                      !.file = r.file,
                      !.writes = @ + 1,
                      !.lock = 0]
    ELSE [repo EXCEPT !.caller.pc = "failed",
                      !.caller.error = "TypeError",
                      !.lock = 0]

\* dump_companies(path, payload, companies)
FileDump ==
    /\ repo.caller.pc = "dump"
    /\ repo' = FileDumped(dump_dataset(repo.caller.payload,
                                       repo.caller.local))
    /\ UNCHANGED <<ladderVars, main>>

NextFile == FileCall \/ FileLoad \/ FileMutator \/ FileDump

SpecFile == InitFile /\ [][NextFile]_vars

(***************************************************************************)
(* Stage scripts: what main does around the analysis of a company          *)
(***************************************************************************)
\* needs_search: the record has no search result with a URL
needs_search(c) ==
    ~(NotNone(c.search_record) /\ The(c.search_record).url # "")

\* clean_company_artifacts: deletes the PDF and the snippets, clears the
\* search, download, extraction and analysis records, empties the emissions
\* and resets the verification; changed tells whether anything was cleared
clean_company_artifacts(c) ==
    Result([c EXCEPT !.download_record = None,
                     !.extraction_record = None,
                     !.search_record = None,
                     !.analysis_record = None,
                     !.emissions = EmissionsData,
                     !.verification = VerificationRecord],
           \/ NotNone(c.download_record)
           \/ NotNone(c.extraction_record)
           \/ NotNone(c.search_record)
           \/ NotNone(c.analysis_record)
           \/ c.emissions # EmissionsData
           \/ c.verification # VerificationRecord)

\* mark_dirty
mark_dirty(m) == [m EXCEPT !.changed = TRUE, !.dirty = TRUE]

\* persist_if_needed without the write
persist_if_needed_skip(m, test_mode, companies) == m

\* persist_if_needed: nothing in test mode or when nothing is dirty;
\* otherwise dump_companies writes the whole list, and its exception leaves
\* main
persist_if_needed(m, test_mode, companies) ==
    IF test_mode \/ ~m.dirty THEN m
    ELSE IF dump_companies(companies).ok
    THEN [m EXCEPT !.file = dump_companies(companies).file,
                   !.dirty = FALSE, !.persisted = TRUE]
    ELSE [m EXCEPT !.pc = "crashed"]

\* analyse_company as one call, without a local model (local_llm_path is
\* None) and outside the interactive modes: inputs[i] is what the world
\* yields for the i-th snippet (whether it can be read, what each parser
\* returns, whether the upload succeeds).  The result is the record it
\* leaves, AnalysisResult.changed and .attempted, and whether it raised.
RECURSIVE AnalyseFrom(_, _, _, _, _, _)
AnalyseDone(c, changed, attempted, raised) ==
    [company |-> c, changed |-> changed, attempted |-> attempted,
     raised |-> raised]

AfterUpload(cfg, snippets, i, inputs, r) ==
    IF r.outcome = "raised" THEN AnalyseDone(r.company, FALSE, TRUE, TRUE)
    ELSE IF r.outcome = "merged" THEN AnalyseDone(r.company, TRUE, TRUE, FALSE)
    ELSE AnalyseFrom(r.company, cfg, snippets, i + 1, inputs, TRUE)

AfterSnippet(cfg, snippets, i, inputs, r) ==
    IF r.outcome = "raised" THEN AnalyseDone(r.company, FALSE, TRUE, TRUE)
    ELSE IF r.outcome = "merged" THEN AnalyseDone(r.company, TRUE, TRUE, FALSE)
    ELSE IF cfg.no_upload
    THEN AnalyseFrom(r.company, cfg, snippets, i + 1, inputs, TRUE)
    ELSE IF ~inputs[i].uploaded
    THEN AnalyseDone(r.company, FALSE, TRUE, TRUE)
    ELSE AfterUpload(cfg, snippets, i, inputs, attempt_method(r.company, cfg, "ai-upload", inputs[i].ai_upload, inputs[i].located, FALSE, snippets[i]))

AfterPython(cfg, snippets, i, inputs, r) ==
    IF r.outcome = "raised" THEN AnalyseDone(r.company, FALSE, TRUE, TRUE)
    ELSE IF r.outcome = "merged" THEN AnalyseDone(r.company, TRUE, TRUE, FALSE)
    ELSE IF cfg.local_only
    THEN AnalyseFrom(r.company, cfg, snippets, i + 1, inputs, TRUE)
    ELSE AfterSnippet(cfg, snippets, i, inputs, attempt_method(r.company, cfg, "ai-snippet", inputs[i].ai_snippet, inputs[i].located, FALSE, snippets[i]))

AnalyseFrom(c, cfg, snippets, i, inputs, attempted) ==
    IF i > Len(snippets) THEN AnalyseDone(c, FALSE, attempted, FALSE)
    ELSE IF ~inputs[i].readable
    THEN AnalyseFrom(c, cfg, snippets, i + 1, inputs, attempted)
    ELSE AfterPython(cfg, snippets, i, inputs, attempt_method(c, cfg, "python", inputs[i].python, inputs[i].located, FALSE, snippets[i]))

analyse_company(c, cfg, existing, inputs) ==
    IF \/ IsNone(c.download_record)
       \/ The(c.download_record).pdf_path = ""
       \/ IsNone(c.extraction_record)
    THEN AnalyseDone(c, FALSE, FALSE, FALSE)
    ELSE AnalyseFrom(c, cfg, snippet_candidates(c, existing), 1, inputs, FALSE)

(***************************************************************************)
(* SpecRun: main of s5_analyse analysing one company sequentially          *)
(***************************************************************************)
InitRun ==
    /\ LadderInit
    /\ \E clean \in BOOLEAN :
          main = [pc |-> "analysing", clean |-> clean, initial |-> company,
                  returned |-> None, file |-> <<company>>, changed |-> FALSE,
                  dirty |-> FALSE, persisted |-> FALSE, cleaned |-> FALSE]

\* AfterAnalyse with the clean policy applied whether or not --clean is given
AfterAnalyse_cleanAlways(m, test_mode, result, cleaned) ==
    LET doClean == ~test_mode /\ result.attempted /\ ~result.changed
        c == IF doClean THEN cleaned.company ELSE company
        company_changed == result.changed \/ (doClean /\ cleaned.changed)
        marked == [(IF company_changed THEN mark_dirty(m) ELSE m) EXCEPT
                      !.returned = Some(result),
                      !.cleaned = doClean /\ cleaned.changed,
                      !.pc = "loop-done"]
    IN  /\ company' = c
        /\ prev' = company
        /\ main' = IF company_changed
                   THEN persist_if_needed(marked, test_mode, <<c>>)
                   ELSE marked

\* what main does with the AnalysisResult of a company: it marks the run
\* dirty on a change, applies the clean policy, stores the company back and
\* persists
AfterAnalyse(m, test_mode, result, cleaned) ==
    LET doClean == m.clean /\ ~test_mode /\ result.attempted /\ ~result.changed
        c == IF doClean THEN cleaned.company ELSE company
        company_changed == result.changed \/ (doClean /\ cleaned.changed)
        marked == [(IF company_changed THEN mark_dirty(m) ELSE m) EXCEPT
                      !.returned = Some(result),
                      !.cleaned = doClean /\ cleaned.changed,
                      !.pc = "loop-done"]
    IN  /\ company' = c
        /\ prev' = company
        /\ main' = IF company_changed
                   THEN persist_if_needed(marked, test_mode, <<c>>)
                   ELSE marked

RunAfterAnalyse ==
    /\ main.pc = "analysing"
    /\ ladder.pc = "done"
    /\ AfterAnalyse(main, ladder.cfg.test_mode,
                    [changed |-> ladder.changed,
                     attempted |-> ladder.attempted_any],
                    clean_company_artifacts(company))
    /\ UNCHANGED <<last, statusSetBy, phase, ladder, repo>>

\* an exception of analyse_company is caught nowhere in the sequential loop
RunRaised ==
    /\ main.pc = "analysing"
    /\ ladder.pc = "raised"
    /\ main' = [main EXCEPT !.pc = "crashed"]
    /\ UNCHANGED <<recVars, ladder, repo>>

\* the end of main: a last persist_if_needed when something is still dirty
RunExit ==
    /\ main.pc = "loop-done"
    /\ main' = [(IF ~ladder.cfg.test_mode /\ main.dirty
                 THEN persist_if_needed(main, ladder.cfg.test_mode, <<company>>)
                 ELSE main) EXCEPT
                   !.pc = IF @ = "crashed" THEN @ ELSE "finished"]
    /\ UNCHANGED <<recVars, ladder, repo>>

NextRun ==
    \/ NextLadder
    \/ RunAfterAnalyse
    \/ RunRaised
    \/ RunExit

SpecRun == InitRun /\ [][NextRun]_vars

(***************************************************************************)
(* SpecBatch: a batch run of s5_analyse (sequential loop, thread pool) or  *)
(* of s4_extract (process pool) over the companies of the dataset file     *)
(***************************************************************************)
MaxCompanies == 2

\* needs_verification: everything under --all, else a company without a
\* positive scope_1 and scope_2 value
needs_verification(c, verify_all) ==
    \/ verify_all
    \/ IsNone(c.emissions.scope_1)
    \/ IsNone(c.emissions.scope_2)
    \/ The(c.emissions.scope_1).value <= 0
    \/ The(c.emissions.scope_2).value <= 0

\* what the files and the PDF of a company make process_company_task do
ExtractCases ==
    {"pdf-missing", "already-extracted", "no-text", "no-keywords",
     "write-failed", "extracted", "raised"}

\* force_research_cleanup: under --clean the company is sent back to search
force_research_cleanup(c, clean) ==
    IF clean
    THEN [c EXCEPT !.search_record = None, !.download_record = None,
                   !.extraction_record = None]
    ELSE c

\* process_company_task on its own copy of the company; finalize returns the
\* copy and whether its dump differs from the payload it was given
process_company_task(c, clean, case) ==
    LET done(after) == [company |-> after, changed |-> after # c,
                        raised |-> FALSE]
    IN  IF IsNone(c.download_record) \/ The(c.download_record).pdf_path = ""
           \/ case = "pdf-missing"
        THEN done(force_research_cleanup(
                 [c EXCEPT !.download_record = None,
                           !.extraction_record = None], clean))
        ELSE IF case = "already-extracted" /\ NotNone(c.extraction_record)
        THEN done(c)
        ELSE IF case = "raised"
        THEN [company |-> c, changed |-> FALSE, raised |-> TRUE]
        ELSE IF case \in {"no-text", "write-failed"}
        THEN done(force_research_cleanup(
                 [c EXCEPT !.extraction_record = None], clean))
        ELSE IF case = "no-keywords"
        THEN done([c EXCEPT !.search_record = None, !.download_record = None,
                            !.extraction_record = None])
        ELSE done([c EXCEPT !.extraction_record =
                       Some(ExtractionRecord("new.txt", None, 0))])

\* the configurations of analyse_company in a batch: the sequential loop in
\* auto mode with uploads enabled, and the pool worker (auto, no upload)
SeqConfig ==
    [mode |-> "auto", threshold |-> ClampThreshold(70), test_mode |-> FALSE,
     local_only |-> FALSE, local_llm |-> FALSE, no_upload |-> FALSE]

WorkerConfig == [SeqConfig EXCEPT !.no_upload = TRUE]

GoodResult == Some(BareResult(Some(12000), Some(7000), None, 95))

AllMiss ==
    [readable |-> TRUE, python |-> None, ai_snippet |-> None,
     uploaded |-> TRUE, ai_upload |-> None, located |-> None]

\* what the world can yield for the snippet of a company
BatchInputs ==
    {AllMiss,
     [AllMiss EXCEPT !.readable = FALSE],
     [AllMiss EXCEPT !.python = GoodResult],
     [AllMiss EXCEPT !.ai_snippet = GoodResult, !.located = Some("12 t")],
     [AllMiss EXCEPT !.ai_snippet =
         Some(ParsedResult(Some(12000), None, Some(7000), None, None, None,
                           None, Some("hybrid"), 95))],
     [AllMiss EXCEPT !.uploaded = FALSE],
     [AllMiss EXCEPT !.ai_upload = GoodResult]}

BatchNames == <<"AAA", "BBB", "CCC", "DDD">>

\* a company with a downloaded PDF and a text snippet that still lacks
\* scope_2
BatchCompany(i, verification) ==
    [Company(BatchNames[i]) EXCEPT
        !.search_record = Some(SearchRecord("https://h/old.pdf")),
        !.download_record = Some(DownloadRecord("old.pdf")),
        !.extraction_record = Some(ExtractionRecord("old.txt", None, 0)),
        !.emissions.scope_1 = Some(ScopeValue(5000, Some(80), Some("old s1"))),
        !.verification = verification]

\* a company no stage has work for: complete emissions, no PDF
Bystander ==
    [Company("ZZZ") EXCEPT
        !.emissions.scope_1 = Some(ScopeValue(5000, Some(80), Some("old s1"))),
        !.emissions.scope_2 =
            Some(Scope2Emissions(3000, Some("location"), Some(80), None))]

BatchExisting == {"old.txt"}

\* company_pairs / indexed_candidates: the indices the run works on
Candidates(kind, companies) ==
    {i \in 1..Len(companies) :
        IF kind = "s4-par"
        THEN /\ NotNone(companies[i].download_record)
             /\ The(companies[i].download_record).pdf_path # ""
        ELSE needs_verification(companies[i], FALSE)}

InitBatch ==
    /\ company = Company("AAA")
    /\ prev = company
    /\ last = [op |-> "load", args |-> <<>>, ok |-> TRUE, ret |-> FALSE]
    /\ statusSetBy = "load"
    /\ phase = "batch"
    /\ ladder = NoLadder
    /\ repo = NoRepo
    /\ \E kind \in {"s5-seq", "s5-par", "s4-par"}, clean \in BOOLEAN,
          n \in 1..MaxCompanies,
          v \in {VerificationRecord, FullVerification("accepted")} :
          LET file == [i \in 1..n |->
                          BatchCompany(i, IF i = 1 THEN v
                                          ELSE VerificationRecord)]
                      \o <<Bystander>>
          IN  /\ kind = "s4-par" => Cardinality(Candidates(kind, file)) > 1
              /\ main = [pc |-> "loop", kind |-> kind, clean |-> clean,
                         file |-> file, initial |-> file, companies |-> file,
                         workers |-> [i \in Candidates(kind, file) |->
                                         [pc |-> "submitted",
                                          payload |-> file[i],
                                          data |-> file[i],
                                          changed |-> FALSE]],
                         completed |-> {}, reported |-> {},
                         changed |-> FALSE, dirty |-> FALSE,
                         persisted |-> FALSE]

\* dump_companies called directly by s4_extract
DumpAll(m) ==
    IF dump_companies(m.companies).ok
    THEN [m EXCEPT !.file = dump_companies(m.companies).file,
                   !.persisted = TRUE]
    ELSE [m EXCEPT !.pc = "crashed"]

\* the sequential loop of s5_analyse after analyse_company returned for the
\* company at index i
SeqAfter(m, i, result, cleaned) ==
    LET doClean == m.clean /\ result.attempted /\ ~result.changed
        c == IF doClean THEN cleaned.company ELSE result.company
        company_changed == result.changed \/ (doClean /\ cleaned.changed)
        stored == [(IF company_changed THEN mark_dirty(m) ELSE m) EXCEPT
                      !.companies[i] = c,
                      !.workers[i].pc = "collected",
                      !.workers[i].data = c,
                      !.workers[i].changed = company_changed,
                      !.reported = @ \cup {i}]
    IN  IF company_changed
        THEN persist_if_needed(stored, FALSE, stored.companies)
        ELSE stored

\* one iteration of the sequential loop: analyse_company works on the
\* company object of the list itself, and its exception leaves main
SeqResult(m, i, result) ==
    IF result.raised
    THEN [m EXCEPT !.companies[i] = result.company, !.pc = "crashed"]
    ELSE SeqAfter(m, i, result, clean_company_artifacts(result.company))

SeqIterate ==
    /\ main.kind = "s5-seq"
    /\ main.pc = "loop"
    /\ \E i \in DOMAIN main.workers :
          /\ main.workers[i].pc = "submitted"
          /\ \A j \in DOMAIN main.workers :
                main.workers[j].pc = "submitted" => i <= j
          /\ \E inp \in BatchInputs :
                main' = SeqResult(main, i, analyse_company(main.companies[i], SeqConfig, BatchExisting, <<inp>>))
    /\ UNCHANGED <<ladderVars, repo>>

\* the worker of the thread pool of s5_analyse: analyse_company and the
\* clean policy on the worker's own copy
WorkerResult(m, i, result, cleaned) ==
    LET doClean == m.clean /\ result.attempted /\ ~result.changed
    IN  IF result.raised
        THEN [m EXCEPT !.workers[i].pc = "failed",
                       !.completed = @ \cup {i}]
        ELSE [m EXCEPT
                 !.workers[i].pc = "returned",
                 !.workers[i].data =
                     IF doClean THEN cleaned.company ELSE result.company,
                 !.workers[i].changed =
                     result.changed \/ (doClean /\ cleaned.changed),
                 !.completed = @ \cup {i}]

WorkerAnalysed(m, i, result) ==
    WorkerResult(m, i, result, clean_company_artifacts(result.company))

AnalyseWorker(i) ==
    /\ main.kind = "s5-par"
    /\ main.workers[i].pc = "submitted"
    /\ \E inp \in BatchInputs :
          main' = WorkerAnalysed(main, i, analyse_company(main.workers[i].payload, WorkerConfig, BatchExisting, <<inp>>))
    /\ UNCHANGED <<ladderVars, repo>>

\* the worker of the process pool of s4_extract
ExtractResult(m, i, result) ==
    IF result.raised
    THEN [m EXCEPT !.workers[i].pc = "failed", !.completed = @ \cup {i}]
    ELSE [m EXCEPT !.workers[i].pc = "returned",
                   !.workers[i].data = result.company,
                   !.workers[i].changed = result.changed,
                   !.completed = @ \cup {i}]

ExtractWorker(i) ==
    /\ main.kind = "s4-par"
    /\ main.workers[i].pc = "submitted"
    /\ \E case \in ExtractCases :
          main' = ExtractResult(main, i, process_company_task(main.workers[i].payload, main.clean, case))
    /\ UNCHANGED <<ladderVars, repo>>

\* the body of the as_completed loop for the future of company i
Collected(m, i) ==
    LET w == m.workers[i]
        seen == [m EXCEPT !.workers[i].pc = "collected",
                          !.completed = @ \ {i},
                          !.reported = @ \cup {i}]
        stored == [seen EXCEPT !.companies[i] = w.data]
    IN  IF w.pc = "failed" THEN seen
        ELSE IF ~w.changed THEN stored
        ELSE IF m.kind = "s4-par" THEN DumpAll(stored)
        ELSE persist_if_needed(mark_dirty(stored), FALSE, stored.companies)

Collect ==
    /\ main.kind \in {"s5-par", "s4-par"}
    /\ main.pc = "loop"
    /\ \E i \in main.completed : main' = Collected(main, i)
    /\ UNCHANGED <<ladderVars, repo>>

\* after the loop: s5_analyse persists what is still dirty, s4_extract
\* writes the file once more
Finished(m) ==
    LET after == IF m.kind = "s4-par" THEN DumpAll(m)
                 ELSE IF m.dirty
                 THEN persist_if_needed(m, FALSE, m.companies)
                 ELSE m
    IN  [after EXCEPT !.pc = IF @ = "crashed" THEN @ ELSE "finished"]

Finish ==
    /\ main.pc = "loop"
    /\ \A i \in DOMAIN main.workers : main.workers[i].pc = "collected"
    /\ main' = Finished(main)
    /\ UNCHANGED <<ladderVars, repo>>

NextBatch ==
    \/ SeqIterate
    \/ \E i \in DOMAIN main.workers : AnalyseWorker(i)
    \/ \E i \in DOMAIN main.workers : ExtractWorker(i)
    \/ Collect
    \/ Finish

SpecBatch == InitBatch /\ [][NextBatch]_vars

\* the executor runs every submitted task and the coordinator keeps
\* consuming as_completed: no enabled step is postponed forever
SpecBatchFair == SpecBatch /\ WF_vars(NextBatch)

(***************************************************************************)
(* SpecPipeline: the record of one company as the stage scripts, the       *)
(* stats tool and the review take turns on it.  Files on disk are a set of *)
(* paths; which of them exist is drawn anew for every run.                 *)
(***************************************************************************)
PathPool ==
    {"old.pdf", "new.pdf", "uploaded.pdf", "old.txt", "old.tab", "new.txt"}

FileSets == {{}, {"old.pdf"}, PathPool}

\* _path_exists
_path_exists(path, files) == path \in files

\* needs_download: false while the search is still needed; else true when
\* there is no PDF path or, with verify_path, the PDF is not on disk
needs_download(c, verify_path, files) ==
    IF needs_search(c) THEN FALSE
    ELSE IF IsNone(c.download_record) \/ The(c.download_record).pdf_path = ""
    THEN TRUE
    ELSE verify_path /\ ~_path_exists(The(c.download_record).pdf_path, files)

\* the tail of needs_extraction on an extraction record
ExtractionMissing(record, verify_path, files) ==
    LET has_text == record.text_path # ""
        has_tables == record.table_count > 0 /\ TruthyStr(record.table_path)
        text_exists == has_text /\ _path_exists(record.text_path, files)
        table_exists ==
            has_tables /\ _path_exists(The(record.table_path), files)
    IN  IF ~has_text /\ ~has_tables THEN TRUE
        ELSE IF ~verify_path THEN FALSE
        ELSE ~(text_exists \/ table_exists)

\* needs_extraction: false when the download is needed; else true without
\* an extraction record, without a text or table path or, with verify_path,
\* when neither file is on disk
needs_extraction(c, verify_path, files) ==
    IF needs_download(c, verify_path, files) THEN FALSE
    ELSE IF IsNone(c.extraction_record) THEN TRUE
    ELSE ExtractionMissing(The(c.extraction_record), verify_path, files)

\* handle_failure of s3_download: the download record goes, and under
\* --clean the search record too
handle_failure(c, is_not_found, clean_records) ==
    [c EXCEPT !.download_record = None,
              !.search_record = IF clean_records THEN None ELSE @]

\* s0_stats --checkscope --delete on a company whose text lacks the scope
\* keywords
checkscope_delete(c) ==
    [c EXCEPT !.search_record = None, !.download_record = None,
              !.extraction_record = None]

InitPipeline ==
    /\ company = Company("ACME")
    /\ prev = company
    /\ last = [op |-> "load", args |-> <<>>, ok |-> TRUE, ret |-> FALSE]
    /\ statusSetBy = "load"
    /\ phase = "pipeline"
    /\ ladder = NoLadder
    /\ main = NoMain
    /\ repo = NoRepo

\* s2_search stores the report it found
PipeSearch ==
    /\ phase = "pipeline"
    /\ needs_search(company)
    /\ Commit("search", <<>>,
              OpResult([company EXCEPT !.search_record =
                           Some(SearchRecord("https://h/old.pdf"))],
                       TRUE, TRUE),
              statusSetBy, FALSE)
    /\ UNCHANGED phase

\* s3_download on a company it queues (download needed, or --all)
PipeDownload ==
    /\ phase = "pipeline"
    /\ ~needs_search(company)
    /\ \E all_items \in BOOLEAN, clean_records \in BOOLEAN,
          files \in FileSets, outcome \in {"ok", "404", "error"} :
          /\ all_items \/ needs_download(company, TRUE, files)
          /\ Commit("download", <<all_items, clean_records, outcome>>,
                    OpResult(IF outcome = "ok"
                             THEN [company EXCEPT !.download_record =
                                      Some(DownloadRecord("new.pdf"))]
                             ELSE handle_failure(company, outcome = "404",
                                                 clean_records),
                             TRUE, outcome = "ok"),
                    statusSetBy, FALSE)
    /\ UNCHANGED phase

\* s4_extract on a company with a download record
PipeExtract ==
    /\ phase = "pipeline"
    /\ NotNone(company.download_record)
    /\ \E clean \in BOOLEAN, case \in ExtractCases \ {"raised"} :
          LET r == process_company_task(company, clean, case)
          IN  Commit("extract", <<clean, case>>,
                     OpResult(r.company, TRUE, r.changed),
                     statusSetBy, FALSE)
    /\ UNCHANGED phase

\* s5_analyse on a company with a PDF and a snippet: a merged result, or
\* the clean policy after a run that found nothing
PipeAnalyse ==
    /\ phase = "pipeline"
    /\ NotNone(company.download_record)
    /\ NotNone(company.extraction_record)
    /\ \/ \E parsed \in ReviewParsedPool : DoMerge(parsed, TRUE)
       \/ LET r == clean_company_artifacts(company)
          IN  Commit("clean", <<>>, OpResult(r.company, TRUE, r.changed),
                     "reset", FALSE)
    /\ UNCHANGED phase

\* s0_stats --checkscope --delete
PipeCheckscope ==
    /\ phase = "pipeline"
    /\ NotNone(company.extraction_record)
    /\ Commit("checkscope", <<>>,
              OpResult(checkscope_delete(company), TRUE,
                       checkscope_delete(company) # company),
              statusSetBy, FALSE)
    /\ UNCHANGED phase

\* s0_stats --reset
PipeReset ==
    /\ phase = "pipeline"
    /\ \E stage \in STAGES : DoReset(<<stage>>, TRUE)
    /\ UNCHANGED phase

\* the review rejects the report with a replacement URL or an upload
PipeReject ==
    /\ phase = "pipeline"
    /\ \E new_url \in {None, Some("https://h/r.pdf?x=1")},
          upload \in {None, Some("data:application/pdf;base64,JVBERi0xLjQ=")} :
          DoReject(new_url, upload, None, Some("rev1"), TRUE)
    /\ UNCHANGED phase

NextPipeline ==
    \/ PipeSearch
    \/ PipeDownload
    \/ PipeExtract
    \/ PipeAnalyse
    \/ PipeCheckscope
    \/ PipeReset
    \/ PipeReject

SpecPipeline == InitPipeline /\ [][NextPipeline]_vars

(***************************************************************************)
(* Deterministic Method (utils/verification.parse_data_fuzzy).  A snippet  *)
(* is a sequence of lines drawn from LinePool; the tables give what the    *)
(* regular expression, the substring tests and the fuzzy matcher of the    *)
(* Python code yield for each line.  Numbers are kept in thousandths.      *)
(***************************************************************************)
MaxLines == 2

\* one match of _VALUE_RE: the number (thousandths), the unit group, where
\* the match starts, whether the segment around it holds a unit token, and
\* whether the number has a decimal point
ValueMatch(milli, unit, start, near, dot) ==
    [milli |-> milli, unit |-> unit, start |-> start, near |-> near,
     dot |-> dot]

LinePool ==
    {"",
     "Scope 1 emissions (tCO2e) 12 kt",
     "Scope 2 emissions 7,000 tonnes CO2e",
     "Scope 3 emissions 2.5 kg",
     "Scope 3: n/a",
     "of which 450 kt",
     "Revenue up in 2024",
     "Scope 2 market-based -5 t"}

\* fuzz.partial_ratio of the lowered line against the patterns of scope_1,
\* scope_2 and scope_3: the best of the four patterns, rounded down
LineScores(line) ==
    CASE line = "Scope 1 emissions (tCO2e) 12 kt" -> <<100, 94, 94>>
      [] line = "Scope 2 emissions 7,000 tonnes CO2e" -> <<94, 100, 94>>
      [] line = "Scope 3 emissions 2.5 kg" -> <<94, 94, 100>>
      [] line = "Scope 3: n/a" -> <<92, 92, 100>>
      [] line = "of which 450 kt" -> <<40, 40, 40>>
      [] line = "Revenue up in 2024" -> <<34, 42, 34>>
      [] line = "Scope 2 market-based -5 t" -> <<92, 100, 92>>
      [] OTHER -> <<0, 0, 0>>

ScopeScore(line, scope_key) ==
    CASE scope_key = "scope_1" -> LineScores(line)[1]
      [] scope_key = "scope_2" -> LineScores(line)[2]
      [] scope_key = "scope_3" -> LineScores(line)[3]

\* _VALUE_RE.finditer(line): the numeric tokens of a line in order
ValueMatches(line) ==
    CASE line = "Scope 1 emissions (tCO2e) 12 kt" ->
            <<ValueMatch(1000, None, 6, FALSE, FALSE),
              ValueMatch(2000, None, 22, TRUE, FALSE),
              ValueMatch(12000, Some("kt"), 26, TRUE, FALSE)>>
      [] line = "Scope 2 emissions 7,000 tonnes CO2e" ->
            <<ValueMatch(2000, None, 6, FALSE, FALSE),
              ValueMatch(7000000, Some("t"), 18, FALSE, FALSE),
              ValueMatch(2000, None, 33, FALSE, FALSE)>>
      [] line = "Scope 3 emissions 2.5 kg" ->
            <<ValueMatch(3000, None, 6, FALSE, FALSE),
              ValueMatch(2500, Some("kg"), 18, TRUE, TRUE)>>
      [] line = "Scope 3: n/a" ->
            <<ValueMatch(3000, None, 6, FALSE, FALSE)>>
      [] line = "of which 450 kt" ->
            <<ValueMatch(450000, Some("kt"), 9, TRUE, FALSE)>>
      [] line = "Revenue up in 2024" ->
            <<ValueMatch(2024000, None, 14, FALSE, FALSE)>>
      [] line = "Scope 2 market-based -5 t" ->
            <<ValueMatch(2000, None, 6, FALSE, FALSE),
              ValueMatch(-5000, Some("t"), 21, FALSE, FALSE)>>
      [] OTHER -> <<>>

\* the substrings the code looks for that the lowered line contains
Marks(line) ==
    CASE line = "Scope 1 emissions (tCO2e) 12 kt" ->
            {"co2", "emission", "kt", "scope", "tco", "tco2"}
      [] line = "Scope 2 emissions 7,000 tonnes CO2e" ->
            {"co2", "emission", "scope", "tonne", "tonnes co2"}
      [] line = "Scope 3 emissions 2.5 kg" ->
            {"emission", "kg", "scope"}
      [] line = "Scope 3: n/a" ->
            {"scope"}
      [] line = "of which 450 kt" ->
            {"kt"}
      [] line = "Revenue up in 2024" ->
            {}
      [] line = "Scope 2 market-based -5 t" ->
            {"market", "market-based", "scope"}
      [] OTHER -> {}

_UNIT_HINTS ==
    <<<<"mtco2", "mt">>, <<"mt co2", "mt">>, <<"million tonnes", "mt">>,
      <<"ktco2", "kt">>, <<"kt co2", "kt">>, <<"thousand tonnes", "kt">>,
      <<"tco2", "t">>, <<" t co2", "t">>, <<"tonnes co2", "t">>,
      <<"tons co2", "t">>>>

_METHOD_HINTS ==
    <<<<"market-based", "market">>, <<"market based", "market">>,
      <<"market", "market">>, <<"location-based", "location">>,
      <<"location based", "location">>, <<"locational", "location">>,
      <<"location", "location">>>>

_CONTEXT_KEYWORDS ==
    {"scope", "emission", "co2", "ghg", "carbon", "tonne", "tco", "ktco",
     "mtco"}

\* the first hint of an ordered hint table that the context contains
FirstHint(hints, marks) ==
    LET hits == {i \in 1..Len(hints) : hints[i][1] \in marks}
    IN  IF hits = {} THEN None
        ELSE Some(hints[CHOOSE i \in hits : \A j \in hits : i <= j][2])

\* _infer_unit on the substrings of the context and the unit group
_infer_unit(marks, explicit) ==
    IF NotNone(FirstHint(_UNIT_HINTS, marks))
    THEN The(FirstHint(_UNIT_HINTS, marks))
    ELSE IF NotNone(explicit) /\ The(explicit) \in {"mt", "kt", "t", "kg"}
    THEN The(explicit)
    ELSE IF "kt" \in marks THEN "kt"
    ELSE IF "mt" \in marks THEN "mt"
    ELSE IF "kg" \in marks THEN "kg"
    ELSE "t"

\* round(): to the nearest integer, a half to the even neighbour
RoundHalfEven(n, d) ==
    LET a == IF n < 0 THEN 0 - n ELSE n
        q == a \div d
        r == a % d
        up == 2 * r > d \/ (2 * r = d /\ q % 2 = 1)
        m == IF up THEN q + 1 ELSE q
    IN  IF n < 0 THEN 0 - m ELSE m

UnitFactor(unit) ==
    CASE unit = "kg" -> 1
      [] unit = "t" -> 1000
      [] unit = "kt" -> 1000000
      [] unit = "mt" -> 1000000000
      [] OTHER -> 1000

\* int(round(number * factor)) for a number in thousandths
CanonicalValue(milli, unit) ==
    IF UnitFactor(unit) = 1 THEN RoundHalfEven(milli, 1000)
    ELSE milli * (UnitFactor(unit) \div 1000)

Abs(n) == IF n < 0 THEN 0 - n ELSE n

\* what the loop body of _extract_numeric_value computes for one match of
\* the line at `offset` from the base line
Candidate(match, marks, offset) ==
    LET near_unit == NotNone(match.unit) \/ match.near
        year == /\ match.milli >= 1000000
                /\ match.milli <= 2100000
                /\ ~match.dot
                /\ ~near_unit
    IN  [milli |-> match.milli,
         explicit |-> match.unit,
         marks |-> marks,
         unit |-> _infer_unit(marks, match.unit),
         value |-> CanonicalValue(match.milli,
                                  _infer_unit(marks, match.unit)),
         unit_present |->
             \/ NotNone(match.unit)
             \/ marks \cap {"tco", "tonne", "ton ", "co2", "ghg", "kt",
                            "mt"} # {},
         priority |-> (IF near_unit THEN 20 ELSE 0)
                      + (IF NotNone(match.unit) THEN 5 ELSE 0)
                      + (IF match.dot THEN 2 ELSE 0)
                      - (IF year THEN 10 ELSE 0)
                      - Abs(offset) * 2
                      - (match.start \div 10)]

\* the candidates of the line at `offset`, one per match, in order
LineCandidates(lines, base_index, offset) ==
    LET matches == ValueMatches(lines[base_index + offset])
        marks == Marks(lines[base_index]) \cup Marks(lines[base_index + offset])
    IN  [k \in 1..Len(matches) |-> Candidate(matches[k], marks, offset)]

\* a candidate survives when its value is positive and a unit is present
Kept(cand) == cand.value > 0 /\ cand.unit_present

\* candidate > best_candidate on (priority, number)
Beats(a, b) ==
    \/ a.priority > b.priority
    \/ a.priority = b.priority /\ a.milli > b.milli

\* the best candidate of a line: the first one no other kept one beats
BestOf(cands) ==
    LET kept == {k \in 1..Len(cands) : Kept(cands[k])}
        top == {k \in kept : \A j \in kept : ~Beats(cands[j], cands[k])}
    IN  IF kept = {} THEN None
        ELSE Some(cands[CHOOSE k \in top : \A j \in top : k <= j])

search_order == <<0, 1, -1, 2, -2, 3>>

NoNumeric ==
    [value |-> None, context |-> None, distance |-> Len(search_order),
     unit_present |-> FALSE, token |-> None]

\* the offsets of search_order from position n on
RECURSIVE ExtractFrom(_, _, _)
ExtractFrom(lines, base_index, n) ==
    IF n > Len(search_order) THEN NoNumeric
    ELSE LET offset == search_order[n]
             idx == base_index + offset
         IN  IF idx < 1 \/ idx > Len(lines)
             THEN ExtractFrom(lines, base_index, n + 1)
             ELSE IF IsNone(BestOf(LineCandidates(lines, base_index, offset)))
             THEN ExtractFrom(lines, base_index, n + 1)
             ELSE [value |-> Some(The(BestOf(LineCandidates(
                                     lines, base_index, offset))).value),
                   context |-> Some(<<lines[base_index], lines[idx]>>),
                   distance |-> Abs(offset),
                   unit_present |-> TRUE,
                   token |-> BestOf(LineCandidates(lines, base_index, offset))]

_extract_numeric_value(lines, base_index) == ExtractFrom(lines, base_index, 1)

\* _find_scope_candidate: the first line with the best score; index 0 and
\* score 0 when no line scores above 0
_find_scope_candidate(lines, scope_key) ==
    LET scored == {i \in 1..Len(lines) : ScopeScore(lines[i], scope_key) > 0}
        top == {i \in scored : \A j \in scored :
                   ScopeScore(lines[j], scope_key)
                       <= ScopeScore(lines[i], scope_key)}
        best == CHOOSE i \in top : \A j \in top : i <= j
    IN  IF scored = {} THEN [idx |-> 0, score |-> 0]
        ELSE [idx |-> best, score |-> ScopeScore(lines[best], scope_key)]

\* _detect_scope2_method on a context
_detect_scope2_method(context) ==
    IF IsNone(context) THEN None
    ELSE FirstHint(_METHOD_HINTS,
                   Marks(The(context)[1]) \cup Marks(The(context)[2]))

NoEntry_scope == [found |-> FALSE, value |-> 0, context |-> None, score |-> 0]

\* the checks of the loop body of parse_data_fuzzy on an extraction
ScopeAccepted(found, extracted) ==
    IF IsNone(extracted.value) \/ IsNone(extracted.context)
    THEN NoEntry_scope
    ELSE IF ~extracted.unit_present THEN NoEntry_scope
    ELSE IF (Marks(The(extracted.context)[1])
                \cup Marks(The(extracted.context)[2]))
            \cap _CONTEXT_KEYWORDS = {}
    THEN NoEntry_scope
    ELSE [found |-> TRUE, value |-> The(extracted.value),
          context |-> extracted.context,
          score |-> IF found.score - extracted.distance * 5 > 0
                    THEN found.score - extracted.distance * 5 ELSE 0]

\* one pass of the loop of parse_data_fuzzy: what values, contexts and
\* scores get for a scope
ScopeLocated(lines, found) ==
    IF found.idx = 0 \/ found.score < 60 THEN NoEntry_scope
    ELSE ScopeAccepted(found, _extract_numeric_value(lines, found.idx))

ScopeEntry(lines, scope_key) ==
    ScopeLocated(lines, _find_scope_candidate(lines, scope_key))

\* a result that needs scope_1 only
FuzzyResult_scope1Only(e1, e2, e3) ==
    IF ~e1.found THEN None
    ELSE Some(ParsedResult(Some(e1.value), e1.context,
                           IF e2.found THEN Some(e2.value) ELSE None,
                           e2.context,
                           IF e3.found THEN Some(e3.value) ELSE None,
                           e3.context, None,
                           _detect_scope2_method(e2.context), 10))

\* the tail of parse_data_fuzzy: no result without scope_1 and scope_2
FuzzyResult(e1, e2, e3) ==
    IF ~e1.found \/ ~e2.found THEN None
    ELSE LET score_floor == IF e1.score < e2.score THEN e1.score
                            ELSE e2.score
             confidence == IF score_floor > 95 THEN 95
                           ELSE IF score_floor < 10 THEN 10
                           ELSE score_floor
         IN  Some(ParsedResult(Some(e1.value), e1.context,
                               Some(e2.value), e2.context,
                               IF e3.found THEN Some(e3.value) ELSE None,
                               e3.context, None,
                               _detect_scope2_method(e2.context),
                               confidence))

\* splitlines, strip, blank lines dropped
SnippetLines(snippet) ==
    LET stripped == [i \in 1..Len(snippet) |-> Strip(snippet[i])]
    IN  SelectSeq(stripped, LAMBDA line : line # "")

parse_lines(lines) ==
    IF lines = <<>> THEN None
    ELSE FuzzyResult(ScopeEntry(lines, "scope_1"),
                     ScopeEntry(lines, "scope_2"),
                     ScopeEntry(lines, "scope_3"))

parse_data_fuzzy(snippet_text) == parse_lines(SnippetLines(snippet_text))

(***************************************************************************)
(* SpecParse: parse_data_fuzzy applied to a snippet                        *)
(***************************************************************************)
\* two lines with no unit anywhere, then a scope label without a usable
\* figure
QuietTails ==
    {<<"Revenue up in 2024", "Revenue up in 2024", label>> :
        label \in {"Scope 3: n/a", "Scope 2 market-based -5 t"}}

SnippetPool ==
    {head \o tail :
        head \in UNION {[1..n -> LinePool] : n \in 0..MaxLines},
        tail \in {<<>>} \cup QuietTails}

InitParse ==
    /\ company = Company("AAA")
    /\ prev = company
    /\ last = [op |-> "load", args |-> <<>>, ok |-> TRUE, ret |-> FALSE]
    /\ statusSetBy = "load"
    /\ phase = "parse"
    /\ ladder = NoLadder
    /\ repo = NoRepo
    /\ \E snippet \in SnippetPool :
          main = [pc |-> "snippet", snippet |-> snippet, result |-> None]

Parse ==
    /\ phase = "parse"
    /\ main.pc = "snippet"
    /\ main' = [main EXCEPT !.pc = "parsed",
                            !.result = parse_data_fuzzy(main.snippet)]
    /\ UNCHANGED <<recVars, ladder, repo>>

NextParse == Parse

SpecParse == InitParse /\ [][NextParse]_vars

(***************************************************************************)
(* SpecStatus: the needs-work predicates of utils/status evaluated on a    *)
(* record, with a fixed set of files on disk                               *)
(***************************************************************************)
StatusRecords ==
    {[Company("ACME") EXCEPT !.search_record = sr, !.download_record = dr,
                             !.extraction_record = er] :
        sr \in {None, Some(SearchRecord("")),
                Some(SearchRecord("https://h/old.pdf"))},
        dr \in {None, Some(DownloadRecord("")),
                Some(DownloadRecord("old.pdf"))},
        er \in {None, Some(ExtractionRecord("", None, 0)),
                Some(ExtractionRecord("old.txt", None, 0)),
                Some(ExtractionRecord("old.txt", Some("old.tab"), 1))}}

InitStatus ==
    /\ company \in StatusRecords
    /\ prev = company
    /\ last = [op |-> "load", args |-> <<>>, ok |-> TRUE, ret |-> FALSE]
    /\ statusSetBy = "load"
    /\ phase = "status"
    /\ ladder = NoLadder
    /\ repo = NoRepo
    /\ \E verify_path \in BOOLEAN, files \in FileSets :
          main = [pc |-> "loaded", verify_path |-> verify_path,
                  files |-> files, search |-> FALSE, download |-> FALSE,
                  extraction |-> FALSE]

\* the three predicates on the record
Evaluate ==
    /\ phase = "status"
    /\ main.pc = "loaded"
    /\ main' = [main EXCEPT
                   !.pc = "evaluated",
                   !.search = needs_search(company),
                   !.download = needs_download(company, main.verify_path,
                                               main.files),
                   !.extraction = needs_extraction(company, main.verify_path,
                                                   main.files)]
    /\ UNCHANGED <<recVars, ladder, repo>>

NextStatus == Evaluate

SpecStatus == InitStatus /\ [][NextStatus]_vars

(***************************************************************************)
(* Properties                                                              *)
(***************************************************************************)
\* the closure the dependency graph is documented to have
DocumentedClosure(stage) ==
    CASE stage = "s2" -> {"s2", "s3", "s4", "s5"}
      [] stage = "s3" -> {"s3", "s4", "s5"}
      [] stage = "s4" -> {"s4", "s5"}
      [] stage = "s5" -> {"s5"}
      [] stage = "s6" -> {"s6"}

RequestedClosure(stages) ==
    UNION {DocumentedClosure(stages[i]) : i \in 1..Len(stages)}

\* the fields a record loses when the stages of closure C are invalidated
ClearedBy(C, before) ==
    [identity |-> before.identity,
     search_record |-> IF "s2" \in C THEN None ELSE before.search_record,
     download_record |-> IF "s3" \in C THEN None ELSE before.download_record,
     extraction_record |->
         IF "s4" \in C THEN None ELSE before.extraction_record,
     analysis_record |-> IF "s5" \in C THEN None ELSE before.analysis_record,
     emissions |-> IF "s5" \in C THEN EmissionsData ELSE before.emissions,
     verification |->
         IF "s5" \in C THEN VerificationRecord ELSE before.verification,
     annotations |->
         IF "s6" \in C
         THEN [before.annotations EXCEPT !.anzsic_division = None,
                                         !.net_zero_claims = None]
         ELSE before.annotations]

\* C3: reset_company_stages clears the fields owned by exactly the stages of
\* the dependency closure of the requested stages and leaves the identity and
\* every other field unchanged; after invalidating s2 the search, download and
\* extraction records and the emissions are empty, and whatever invalidating
\* s3 clears is cleared by invalidating s2 as well.
C3_ResetClearsClosure ==
    last.op = "reset" =>
        LET C == RequestedClosure(last.args)
            afterS3 == reset_company_stages(prev, <<"s3">>).company
        IN  /\ company = ClearedBy(C, prev)
            /\ "s2" \in SeqToSet(last.args) =>
                  /\ IsNone(company.search_record)
                  /\ IsNone(company.download_record)
                  /\ IsNone(company.extraction_record)
                  /\ company.emissions = EmissionsData
                  /\ \A f \in {"download_record", "extraction_record",
                               "analysis_record"} :
                        IsNone(afterS3[f]) => IsNone(company[f])
                  /\ afterS3.emissions = company.emissions
                  /\ afterS3.verification = company.verification

\* a fully populated record has had s2 invalidated: the four pipeline
\* artifacts are gone and the annotations are untouched
C3_Witness ==
    /\ last.op = "reset"
    /\ last.args = <<"s2">>
    /\ NotNone(prev.search_record)
    /\ NotNone(prev.download_record)
    /\ NotNone(prev.extraction_record)
    /\ NotNone(prev.analysis_record)
    /\ NotNone(prev.emissions.scope_1)
    /\ prev.verification.status = "accepted"
    /\ prev.annotations = FullAnnotations
    /\ IsNone(company.search_record)
    /\ IsNone(company.analysis_record)
    /\ company.annotations = FullAnnotations

\* C4: every Record Merge that returns true leaves verification.status
\* pending and the three scope overrides null, whatever they were before.
C4_MergeResetsVerification ==
    (last.op = "merge" /\ last.ok /\ last.ret) =>
        /\ company.verification.status = "pending"
        /\ IsNone(company.verification.scope_1_override)
        /\ IsNone(company.verification.scope_2_override)
        /\ IsNone(company.verification.scope_3_override)

\* a merge succeeded on a record that was accepted with all overrides set
C4_Witness ==
    /\ last.op = "merge"
    /\ last.ret
    /\ prev.verification.status = "accepted"
    /\ NotNone(prev.verification.scope_1_override)
    /\ NotNone(prev.verification.scope_3_override)
    /\ company.verification.status = "pending"

\* the result handed to the merge lacks a positive scope_1 or scope_2
InvalidResult(parsedOpt) ==
    /\ NotNone(parsedOpt)
    /\ \/ IsNone(The(parsedOpt).scope_1)
       \/ IsNone(The(parsedOpt).scope_2)
       \/ (NotNone(The(parsedOpt).scope_1) /\ The(The(parsedOpt).scope_1) <= 0)
       \/ (NotNone(The(parsedOpt).scope_2) /\ The(The(parsedOpt).scope_2) <= 0)

\* C9: a Record Merge of a result whose scope_1 or scope_2 is missing or
\* <= 0 returns false and leaves every field of the record as it was.
C9_InvalidMergeDiscarded ==
    (last.op = "merge" /\ InvalidResult(last.args)) =>
        /\ last.ok
        /\ last.ret = FALSE
        /\ company = prev

\* a result with scope_1 = 0 was offered to a record holding emissions, an
\* analysis record and an accepted verification
C9_Witness ==
    /\ last.op = "merge"
    /\ NotNone(last.args)
    /\ The(last.args).scope_1 = Some(0)
    /\ The(last.args).scope_2 = Some(12000)
    /\ NotNone(prev.emissions.scope_1)
    /\ NotNone(prev.analysis_record)
    /\ prev.verification.status = "accepted"
    /\ last.ret = FALSE
    /\ company = prev

\* C10: stage invalidation is idempotent: after reset_company_stages has
\* been applied, applying it again with the same requested stages leaves the
\* record as it is and reports no change.
C10_ResetIdempotent ==
    last.op = "reset" =>
        reset_company_stages(company, last.args) = Result(company, FALSE)

\* s3 has been invalidated on a record that had a download record and
\* analysis results, so the first application did change the record
C10_Witness ==
    /\ last.op = "reset"
    /\ last.args = <<"s3">>
    /\ last.ret = TRUE
    /\ NotNone(prev.download_record)
    /\ NotNone(prev.analysis_record)
    /\ prev.verification.status = "rejected"
    /\ IsNone(company.download_record)

\* C2: in every state reachable by record merges, review accepts, review
\* rejects, manual overrides and stage resets, verification.status = accepted
\* implies that the emissions are complete, unless the accepted status was
\* set by the manual override.
C2_AcceptedImpliesComplete ==
    company.verification.status = "accepted" =>
        \/ emissions_complete(company.emissions)
        \/ statusSetBy = "override"


(***************************************************************************)
(* Properties of the fallback ladder                                       *)
(***************************************************************************)
LadderStopped == ladder.pc \in {"done", "raised"}

AttemptMade == ladder.attempt.method # "none"

AttemptValid == AttemptMade /\ ~Unusable(ladder.attempt.input)

AttemptConfidence == The(ladder.attempt.input).confidence

AttemptIsMiss == ladder.attempt.outcome \in {"miss", "lowconf", "rejected"}

\* the methods the run is configured to try on a snippet; a local model that
\* failed to load counts as not configured
ConfiguredMethods ==
    {"python"}
    \cup (IF ~ladder.cfg.local_only /\ ladder.cfg.local_llm
             /\ ladder.llm # "failed"
          THEN {"local-llm"} ELSE {})
    \cup (IF ~ladder.cfg.local_only THEN {"ai-snippet"} ELSE {})
    \cup (IF ~ladder.cfg.local_only /\ ~ladder.cfg.no_upload
          THEN {"ai-upload"} ELSE {})

ConfiguredAttempts ==
    {<<i, m>> : i \in (1..Len(ladder.snippets)) \ ladder.unreadable,
                m \in ConfiguredMethods}

\* C5: at most one result is merged per company per run; the merge is the
\* last attempt of the run, the only accepted one, it halts the ladder, and
\* the record carries the provenance of that attempt.
C5_AtMostOneMerge ==
    /\ ladder.nMerges <= 1
    /\ ladder.nMerges = 1 =>
          /\ ladder.pc = "done"
          /\ ladder.attempt.outcome = "merged"
          /\ ladder.nAccepted = 1
          /\ The(company.analysis_record).method = ladder.attempt.method
          /\ The(company.analysis_record).snippet_label =
                 ladder.snippets[ladder.attempt.si].label

\* a merge that followed misses on both snippets
C5_Witness ==
    /\ ladder.nMerges = 1
    /\ ladder.attempt.si = 2
    /\ ladder.nAttempts >= 3
    /\ ladder.pc = "done"

\* C6: a miss leaves the record unchanged, and a run that stopped without an
\* acceptance has attempted every configured method of every readable
\* snippet.
C6_MissContinues ==
    /\ AttemptIsMiss => company = prev
    /\ (LadderStopped /\ ladder.snippets # <<>> /\ ~ladder.attempt.merge_called)
          => ladder.tried = ConfiguredAttempts

\* C7: in auto mode with test mode off a valid result is merged iff its
\* confidence reaches the threshold, and the prompt is never invoked.
C7_AutoGate ==
    (ladder.cfg.mode = "auto" /\ ~ladder.cfg.test_mode) =>
        /\ ladder.nPrompts = 0
        /\ AttemptValid =>
              (ladder.attempt.outcome = "merged"
                  <=> AttemptConfidence >= ladder.cfg.threshold)

\* C8: with test mode off a valid result is prompted iff the mode is review,
\* or threshold with a confidence below the threshold; a prompted result is
\* merged iff the reviewer accepts; in threshold mode a result at or above
\* the threshold is merged without a prompt.
C8_PromptGate ==
    (~ladder.cfg.test_mode /\ AttemptValid) =>
        /\ ladder.attempt.prompted <=>
              \/ ladder.cfg.mode = "review"
              \/ (ladder.cfg.mode = "threshold"
                    /\ AttemptConfidence < ladder.cfg.threshold)
        /\ ladder.attempt.prompted =>
              (ladder.attempt.outcome = "merged" <=> ladder.attempt.answer)
        /\ (ladder.cfg.mode = "threshold"
              /\ AttemptConfidence >= ladder.cfg.threshold) =>
              (ladder.attempt.outcome = "merged" /\ ~ladder.attempt.prompted)


(***************************************************************************)
(* Properties of the repository                                            *)
(***************************************************************************)
InCritical(t) == repo.threads[t].pc \in {"load", "mutator", "dump", "release"}

\* C1: the load -> mutator -> persist sequences of the threads of one process
\* never overlap, the dataset a mutator works on holds the effect of every
\* committed mutate call, and the file holds exactly what the committed
\* mutators yield one after the other.
C1_NoLostUpdate ==
    /\ \A t, u \in Threads : (InCritical(t) /\ InCritical(u)) => t = u
    /\ \A t \in Threads :
          repo.threads[t].pc = "mutator" =>
              repo.threads[t].local = repo.expected
    /\ repo.file = repo.expected

\* two calls committed, on different companies, and both effects are in the
\* file
C1_Witness ==
    /\ repo.commits = 2
    /\ repo.file[1] # InitialFile[1]
    /\ repo.file[2] # InitialFile[2]
    /\ \A t \in Threads : repo.threads[t].pc = "done"

(***************************************************************************)
(* Properties of the stage reset, continued                                *)
(***************************************************************************)
\* the request lists of at most MaxStages stages naming exactly the stages
\* of `stages`, in any order and with any duplicates
SameStageLists(stages) ==
    {other \in UNION {[1..n -> SeqToSet(stages)] : n \in 0..MaxStages} :
        SeqToSet(other) = SeqToSet(stages)}

\* C11: two request lists with the same set of stages leave the record in
\* the same state (and report the same change flag), whatever their order
\* and duplicates.
C11_ResetOrderIndependent ==
    last.op = "reset" =>
        \A other \in SameStageLists(last.args) :
            reset_company_stages(prev, other) = Result(company, last.ret)

\* a request of two different stages changed the record, and the reversed
\* request is among the lists compared
C11_Witness ==
    /\ last.op = "reset"
    /\ last.args = <<"s6", "s3">>
    /\ <<"s3", "s6">> \in SameStageLists(last.args)
    /\ company # prev
    /\ NotNone(prev.download_record)
    /\ prev.annotations = FullAnnotations

\* C12: after an invalidation whose closure contains s5 (a request naming
\* s2, s3, s4 or s5) the analysis record is null, the emissions hold no
\* scope, and the verification is pending with reviewer, verified_at, notes
\* and the three overrides null.
C12_ClosureWithS5ClearsAnalysis ==
    (last.op = "reset"
       /\ SeqToSet(last.args) \cap {"s2", "s3", "s4", "s5"} # {}) =>
        /\ IsNone(company.analysis_record)
        /\ IsNone(company.emissions.scope_1)
        /\ IsNone(company.emissions.scope_2)
        /\ IsNone(company.emissions.scope_3)
        /\ company.verification.status = "pending"
        /\ \A f \in {"reviewer", "verified_at", "notes", "scope_1_override",
                     "scope_2_override", "scope_3_override"} :
              IsNone(company.verification[f])

\* s4 was invalidated on an accepted, overridden record with emissions
C12_Witness ==
    /\ last.op = "reset"
    /\ last.args = <<"s4">>
    /\ prev.verification = FullVerification("accepted")
    /\ NotNone(prev.analysis_record)
    /\ NotNone(prev.emissions.scope_2)
    /\ company.verification = VerificationRecord
    /\ company.emissions = EmissionsData

(***************************************************************************)
(* Properties of independent processes on one dataset file                 *)
(***************************************************************************)
Committed(p) == repo.procs[p].commitNo > 0

\* q committed after the last writer w had read the file, on another company
Overtaken(q, w) ==
    /\ q # w
    /\ Committed(q)
    /\ repo.procs[q].commitNo > repo.procs[w].readAt
    /\ repo.procs[q].req.key # repo.procs[w].req.key

\* C13: the last writer's full-file overwrite wins.  The file is the dataset
\* the last writer read with its own mutator applied, so the update of any
\* process that committed between that read and that write is absent from
\* the file although both calls completed; the per-process lock prevents
\* none of it.
C13_LastWriterWins ==
    repo.lastWriter # 0 =>
        LET w == repo.lastWriter
        IN  /\ repo.file =
                  RunMutator(repo.procs[w].base, repo.procs[w].req).companies
            /\ \A q \in Procs :
                  Overtaken(q, w) =>
                      LET i == FindTarget(repo.file, repo.procs[q].req.key)
                      IN  repo.file[i] = repo.procs[w].base[i]

\* both processes completed their merge, one on AAA and one on BBB, and the
\* file lacks the merge of the first writer
C13_Witness ==
    /\ \A p \in {1, 2} : repo.procs[p].pc = "done" /\ Committed(p)
    /\ repo.commits >= 2
    /\ repo.lastWriter = 2
    /\ repo.procs[1].req = [kind |-> "merge", key |-> "AAA"]
    /\ repo.procs[2].req = [kind |-> "merge", key |-> "BBB"]
    /\ repo.file[1] = InitialFile[1]
    /\ repo.file[2] # InitialFile[2]
    /\ repo.file # repo.expected

(***************************************************************************)
(* Properties of the sequential run on one company                         *)
(***************************************************************************)
RunOver == main.pc \in {"finished", "crashed"}

\* no attempt of the run so far was accepted and merged, and none raised
OnlyMisses == ladder.nMerges = 0 /\ ladder.attempt.outcome # "raised"

\* C15: with the clean policy off, as long as every attempt on every snippet
\* is a miss, no change is reported for the company, its record is the one
\* the run started with, and nothing of it is written to the dataset file.
C15_AllMissesLeaveRecord ==
    (~main.clean /\ OnlyMisses) =>
        /\ company = main.initial
        /\ ~ladder.changed
        /\ NotNone(main.returned) => ~The(main.returned).changed
        /\ ~main.changed /\ ~main.dirty /\ ~main.persisted
        /\ main.file = <<main.initial>>

\* a finished run without --clean that missed with several methods on both
\* snippets
C15_Witness ==
    /\ main.pc = "finished"
    /\ ~main.clean
    /\ OnlyMisses
    /\ ladder.attempt.si = 2
    /\ ladder.nAttempts >= 4
    /\ main.returned = Some([changed |-> FALSE, attempted |-> TRUE])
    /\ NotNone(main.initial.search_record)

\* C16: under --clean with test mode off, a run that attempted a method and
\* accepted none leaves the search, download and extraction records null in
\* memory and in the dataset file, so that needs_search holds; a run that
\* accepted a result clears nothing.
C16_CleanPurges ==
    (main.clean /\ ~ladder.cfg.test_mode /\ RunOver) =>
        /\ (ladder.attempted_any /\ ladder.nMerges = 0) =>
              /\ IsNone(company.search_record)
              /\ IsNone(company.download_record)
              /\ IsNone(company.extraction_record)
              /\ main.persisted
              /\ main.file = <<company>>
              /\ needs_search(main.file[1])
        /\ ladder.nMerges > 0 =>
              /\ ~main.cleaned
              /\ company.search_record = main.initial.search_record
              /\ company.download_record = main.initial.download_record
              /\ company.extraction_record = main.initial.extraction_record

(***************************************************************************)
(* Properties of the external methods of the ladder                        *)
(***************************************************************************)
ExternalMethods == {"local-llm", "ai-snippet", "ai-upload"}

\* C17: a failure of an external method is a miss: the attempt leaves the
\* record as it was, analyse_company is left by no exception of such a
\* method, and a run that stopped after the failure of its last attempt has
\* gone through every configured method of every readable snippet.
C17_FailureIsMiss ==
    /\ (ladder.attempt.method \in ExternalMethods
          /\ IsNone(ladder.attempt.input)) =>
          /\ ladder.attempt.outcome = "miss"
          /\ company = prev
    /\ ladder.pc = "raised" => ladder.attempt.outcome = "raised"
    /\ (LadderStopped /\ AttemptMade /\ IsNone(ladder.attempt.input)) =>
          ladder.tried = ConfiguredAttempts

(***************************************************************************)
(* Properties of the batch runs                                            *)
(***************************************************************************)
Parallel == main.kind \in {"s5-par", "s4-par"}

BatchDone ==
    /\ main.pc = "finished"
    /\ main.reported = DOMAIN main.workers
    /\ \A i \in DOMAIN main.workers :
          main.workers[i].changed => main.file[i] = main.workers[i].data

\* C18: a batch run never aborts on the failure of one company: in every
\* run, sequential or parallel, main eventually returns having processed and
\* reported every company that needed work, with the accepted changes of the
\* companies in the dataset file.
C18_BatchNeverAborts == <>BatchDone

(***************************************************************************)
(* Properties of the provenance kept by the merge                          *)
(***************************************************************************)
\* a provenance field that carries no text
Blank(o) == IsNone(o) \/ Strip(The(o)) = ""

ContextOf(scope) == IF NotNone(scope) THEN The(scope).context ELSE None

\* the stored field holds the new text when the result supplies one, and
\* still holds the old text when the result has none
ProvenanceKept(new, old, stored) ==
    IF ~Blank(new) THEN stored = Some(Strip(The(new)))
    ELSE ~Blank(old) => stored = Some(Strip(The(old)))

\* C19: a merge never regresses provenance to empty: the context of every
\* scope it writes, the scope_2 method and the scope_3 qualifiers hold the
\* value of the new result when it supplies one, and the value stored before
\* when it does not.
C19_MergeKeepsProvenance ==
    (last.op = "merge" /\ last.ok /\ last.ret) =>
        LET parsed == The(last.args)
            old == prev.emissions
            new == company.emissions
        IN  /\ ProvenanceKept(parsed.scope_1_context, ContextOf(old.scope_1),
                              The(new.scope_1).context)
            /\ ProvenanceKept(parsed.scope_2_context, ContextOf(old.scope_2),
                              The(new.scope_2).context)
            /\ IF ~Blank(parsed.scope_2_method)
               THEN The(new.scope_2).method =
                        _normalise_method(parsed.scope_2_method).value
               ELSE NotNone(old.scope_2) =>
                        The(new.scope_2).method = The(old.scope_2).method
            /\ (NotNone(parsed.scope_3) /\ The(parsed.scope_3) > 0) =>
                  /\ ProvenanceKept(parsed.scope_3_context,
                                    ContextOf(old.scope_3),
                                    The(new.scope_3).context)
                  /\ ProvenanceKept(parsed.qualifiers,
                                    IF NotNone(old.scope_3)
                                    THEN The(old.scope_3).qualifiers
                                    ELSE None,
                                    The(new.scope_3).qualifiers)

(***************************************************************************)
(* Properties of the manual override                                       *)
(***************************************************************************)
\* C20: after apply_manual_override with a request that VerificationOverride
\* accepts, scope_1 and scope_2 are present with a value > 0 (the emissions
\* are complete), the status is accepted and the three override fields hold
\* the submitted values.
C20_OverrideSuppliesBothScopes ==
    last.op = "override" =>
        /\ NotNone(company.emissions.scope_1)
        /\ NotNone(company.emissions.scope_2)
        /\ The(company.emissions.scope_1).value > 0
        /\ The(company.emissions.scope_2).value > 0
        /\ emissions_complete(company.emissions)
        /\ company.verification.status = "accepted"
        /\ company.verification.scope_1_override = Some(last.args[1])
        /\ company.verification.scope_2_override = Some(last.args[2])
        /\ company.verification.scope_3_override = last.args[3]

(***************************************************************************)
(* Properties of the order of the ladder                                   *)
(***************************************************************************)
METHOD_ORDER == <<"python", "local-llm", "ai-snippet", "ai-upload">>

\* the configured methods ahead of method m in the order
MethodsAhead(m) ==
    {METHOD_ORDER[k] : k \in {j \in 1..Len(METHOD_ORDER) :
                                 \E n \in (j + 1)..Len(METHOD_ORDER) :
                                     METHOD_ORDER[n] = m}}
    \cap ConfiguredMethods

\* C21: the tables snippet is tried before the text snippet; a method is
\* attempted on a snippet only after every configured method ahead of it was
\* attempted on that snippet and every earlier readable snippet went through
\* all configured methods; an attempt that merged is the last one, so every
\* attempt before another one missed; under --local only the deterministic
\* parser is attempted.
C21_LadderOrder ==
    /\ Len(ladder.snippets) = 2 =>
          /\ ladder.snippets[1].label = "tables"
          /\ ladder.snippets[2].label = "text"
    /\ \A at \in ladder.tried :
          /\ \A m \in MethodsAhead(at[2]) : <<at[1], m>> \in ladder.tried
          /\ \A i \in 1..(at[1] - 1) :
                \/ i \in ladder.unreadable
                \/ \A m \in ConfiguredMethods : <<i, m>> \in ladder.tried
    /\ ladder.nMerges > 0 =>
          /\ ladder.attempt.outcome = "merged"
          /\ ladder.pc = "done"
    /\ ladder.cfg.local_only =>
          \A at \in ladder.tried : at[2] = "python"

\* all four methods missed on the tables snippet and the text snippet is
\* being worked on
C21_Witness ==
    /\ Len(ladder.snippets) = 2
    /\ ladder.nMerges = 0
    /\ \A m \in {"python", "local-llm", "ai-snippet", "ai-upload"} :
          <<1, m>> \in ladder.tried
    /\ <<2, "ai-snippet">> \in ladder.tried

(***************************************************************************)
(* Properties of the dataset file                                          *)
(***************************************************************************)
\* the keys beside "companies" that the file had before the first caller
OriginalSiblings ==
    IF repo.initial.kind = "object" THEN repo.initial.siblings ELSE <<>>

\* C22: once any caller has written the file, the file is an object whose
\* keys other than "companies" are those of the file as it was loaded, with
\* the same values, and whose "companies" entry is the dumped list.
C22_SiblingsPreserved ==
    repo.writes > 0 =>
        /\ repo.file.kind = "object"
        /\ repo.file.companies.t = "list"
        /\ DOMAIN repo.file.siblings = DOMAIN OriginalSiblings
        /\ \A k \in DOMAIN OriginalSiblings :
              repo.file.siblings[k] = OriginalSiblings[k]
        /\ repo.caller.wrote =>
              /\ repo.file.siblings = repo.caller.payload.siblings
              /\ repo.file.companies.items = repo.caller.local

C22_Witness ==
    /\ repo.writes = 2
    /\ repo.caller.wrote
    /\ repo.caller.via = "repository"
    /\ DOMAIN repo.file.siblings = {"generated_at", "source"}
    /\ repo.file.companies # repo.initial.companies

\* the files the load must refuse: missing, not JSON, a "companies" entry
\* that is not a list, a record that fails Company.model_validate
Unreadable(f) ==
    \/ f.kind \in {"missing", "invalid-json"}
    \/ /\ f.kind = "object"
       /\ \/ f.companies.t \in {"null", "empty-str", "str"}
          \/ f.companies.t = "list" /\ ~load_companies(f.companies.items).ok

\* C23: a caller that loaded an unreadable file has failed with the load
\* error: it holds no company list, its mutator was not run and the file is
\* as it was.
C23_UnreadableNeverCoerced ==
    (repo.caller.pc \notin {"idle", "load"}
        /\ Unreadable(repo.caller.loadedFrom)) =>
        /\ repo.caller.pc = "failed"
        /\ repo.caller.error = "ValueError"
        /\ ~repo.caller.mutatorRan
        /\ ~repo.caller.wrote
        /\ repo.file = repo.caller.loadedFrom

(***************************************************************************)
(* Properties of the pipeline on one record                                *)
(***************************************************************************)
\* the operation took away a search, download or extraction record
ClearedUpstream(before, after) ==
    \/ NotNone(before.search_record) /\ IsNone(after.search_record)
    \/ NotNone(before.download_record) /\ IsNone(after.download_record)
    \/ NotNone(before.extraction_record) /\ IsNone(after.extraction_record)

\* C24: an operation that clears the search, download or extraction record
\* also clears the analysis record and the emissions and leaves the
\* verification pending (a reject then records its own decision on the
\* reset verification); so a record holding an analysis record or
\* emissions still has its download and extraction records.
C24_DownstreamNeverOutlives ==
    /\ (last.op # "load" /\ ClearedUpstream(prev, company)) =>
          /\ IsNone(company.analysis_record)
          /\ company.emissions = EmissionsData
          /\ \/ company.verification.status = "pending"
             \/ last.op = "reject" /\ company.verification.status = "rejected"
    /\ (NotNone(company.analysis_record)
           \/ company.emissions # EmissionsData) =>
          /\ NotNone(company.download_record)
          /\ NotNone(company.extraction_record)

(***************************************************************************)
(* Properties of the Deterministic Method                                  *)
(***************************************************************************)
\* some line of the snippet scores at least 60 for the scope
Located(lines, scope_key) ==
    \E i \in 1..Len(lines) : ScopeScore(lines[i], scope_key) >= 60

\* C25: parse_data_fuzzy returns a result only when scope_1 and scope_2 both
\* have a line scoring at least 60 and an accepted candidate, the result
\* then carries both values; when either is missing there is no result.  A
\* missing scope_3 does not prevent the result.
C25_NoPartialResult ==
    main.pc = "parsed" =>
        /\ NotNone(main.result) =>
              \A k \in {"scope_1", "scope_2"} :
                 /\ Located(SnippetLines(main.snippet), k)
                 /\ ScopeEntry(SnippetLines(main.snippet), k).found
                 /\ The(main.result)[k] =
                        Some(ScopeEntry(SnippetLines(main.snippet), k).value)
                 /\ The(The(main.result)[k]) > 0
        /\ (\E k \in {"scope_1", "scope_2"} :
               \/ ~Located(SnippetLines(main.snippet), k)
               \/ ~ScopeEntry(SnippetLines(main.snippet), k).found) =>
              IsNone(main.result)
        /\ (\A k \in {"scope_1", "scope_2"} :
               ScopeEntry(SnippetLines(main.snippet), k).found) =>
              NotNone(main.result)

C25_Witness ==
    /\ main.pc = "parsed"
    /\ NotNone(main.result)
    /\ IsNone(The(main.result).scope_3)
    /\ Located(SnippetLines(main.snippet), "scope_3")

\* the unit by the documented priority: the unit token when it is one of
\* mt, kt, t, kg; otherwise a keyword of the context; otherwise t
DocumentedUnit(marks, explicit) ==
    IF NotNone(explicit) /\ The(explicit) \in {"mt", "kt", "t", "kg"}
    THEN The(explicit)
    ELSE IF NotNone(FirstHint(_UNIT_HINTS, marks))
    THEN The(FirstHint(_UNIT_HINTS, marks))
    ELSE IF "kt" \in marks THEN "kt"
    ELSE IF "mt" \in marks THEN "mt"
    ELSE IF "kg" \in marks THEN "kg"
    ELSE "t"

\* the numeric tokens the method looks at: for each scope with a located
\* line, the matches of the lines in reach of it
ReachOf(lines, base_index) ==
    UNION {
        {LineCandidates(lines, base_index, off)[n] :
            n \in 1..Len(ValueMatches(lines[base_index + off]))} :
        off \in {o \in {search_order[j] : j \in 1..Len(search_order)} :
                    base_index + o >= 1 /\ base_index + o <= Len(lines)}}

TokensInReach(lines) ==
    UNION {ReachOf(lines, _find_scope_candidate(lines, k).idx) :
              k \in {kk \in {"scope_1", "scope_2", "scope_3"} :
                        _find_scope_candidate(lines, kk).score >= 60}}

\* C26: every numeric token in reach is converted with the unit of the
\* documented priority, value = round(number * factor[unit]), and a token
\* whose value is not positive is never the one returned.
C26_UnitNormalisation ==
    main.pc = "parsed" =>
        /\ \A tok \in TokensInReach(SnippetLines(main.snippet)) :
              /\ tok.unit = DocumentedUnit(tok.marks, tok.explicit)
              /\ tok.value = CanonicalValue(tok.milli,
                                 DocumentedUnit(tok.marks, tok.explicit))
        /\ NotNone(main.result) =>
              /\ The(The(main.result).scope_1) > 0
              /\ The(The(main.result).scope_2) > 0

(***************************************************************************)
(* Properties of the record merge as one step                              *)
(***************************************************************************)
\* C27: after update_company_emissions either it returned true and scope_1,
\* scope_2, the analysis record and the verification reset are all applied,
\* or the record is as it was before the call, also when the call raised.
C27_MergeAllOrNothing ==
    last.op = "merge" =>
        \/ /\ last.ok
           /\ last.ret
           /\ NotNone(company.emissions.scope_1)
           /\ NotNone(company.emissions.scope_2)
           /\ NotNone(company.analysis_record)
           /\ company.verification.status = "pending"
        \/ company = prev

(***************************************************************************)
(* Properties of the reject request                                        *)
(***************************************************************************)
\* the requests apply_reject must refuse: no URL and no upload, a URL that
\* is not an http/https PDF URL, an upload that is not a PDF
InvalidReject(new_url, upload_contents) ==
    \/ ~TruthyStr(new_url) /\ ~TruthyStr(upload_contents)
    \/ new_url \in {Some("ftp://h/r.pdf"), Some("https://h/r.html")}
    \/ upload_contents = Some("data:text/plain;base64,aGk=")

\* C29: apply_reject on an invalid request raises and the record is as it
\* was: no stage reset, no change to verification, emissions, search_record
\* or download_record, also when the other input is valid.
C29_RejectValidatesFirst ==
    (last.op = "reject" /\ InvalidReject(last.args[1], last.args[2])) =>
        /\ ~last.ok
        /\ company = prev

C29_Witness ==
    /\ last.op = "reject"
    /\ ~last.ok
    /\ last.args[1] = Some("https://h/r.pdf?x=1")
    /\ last.args[2] = Some("data:text/plain;base64,aGk=")
    /\ NotNone(prev.analysis_record)
    /\ NotNone(prev.download_record)
    /\ company = prev

(***************************************************************************)
(* Properties of a mutator that raises                                     *)
(***************************************************************************)
\* thread t leaves mutate because its mutator raised
MutatorRaised(t) ==
    /\ repo.threads[t].pc = "mutator"
    /\ repo'.threads[t].pc = "failed"

\* C28: the step in which a mutator raises leaves the dataset file as it
\* was and frees the lock its thread held; no thread that has left mutate
\* holds the lock, so a waiting caller can enter.
C28_RaisingMutatorWritesNothing ==
    /\ [][\A t \in Threads :
             MutatorRaised(t) =>
                 /\ repo.lock = t
                 /\ repo'.lock = 0
                 /\ repo'.file = repo.file
                 /\ repo'.commits = repo.commits]_vars
    /\ [](\A t \in Threads :
             repo.threads[t].pc \in {"idle", "acquire", "failed", "done"} =>
                 repo.lock # t)

C28_Witness ==
    /\ repo.threads[1].pc = "failed"
    /\ repo.threads[1].req.key = "ZZZ"
    /\ repo.threads[2].pc = "done"
    /\ repo.commits = 1
    /\ repo.lock = 0
    /\ repo.file # InitialFile

C28_WitnessInvalidReject ==
    /\ repo.threads[1].pc = "failed"
    /\ repo.threads[1].req.kind = "reject-invalid"
    /\ repo.threads[2].pc = "done"
    /\ repo.lock = 0

(***************************************************************************)
(* Properties of the needs-work predicates                                 *)
(***************************************************************************)
\* C30: at most one of needs_search, needs_download and needs_extraction
\* holds for a record, and a record that needs the search needs neither the
\* download nor the extraction.
C30_OneStageAtATime ==
    main.pc = "evaluated" =>
        /\ ~(main.search /\ main.download)
        /\ ~(main.search /\ main.extraction)
        /\ ~(main.download /\ main.extraction)

====
